---- MODULE Spec2Model ----
(***************************************************************************)
(* A model of mc2, the model checker for a hierarchical document store     *)
(* with compare-and-swap writes: the versioned Store and the per-client    *)
(* Cache (store.rs), Path (path.rs), the Actor (actor.rs), the Checker     *)
(* (db.rs), the Graph and its permuter (graph.rs), the Planner and Client  *)
(* (planner.rs) and the execution of one ordering by a Worker (runner.rs). *)
(*                                                                         *)
(* Strings are sequences of one-character strings, so that Path parsing    *)
(* is computed as the code computes it.  Option<T> is a sequence of length *)
(* at most one: None is <<>> and Some(v) is <<v>>.  A Rust tuple is a TLA+ *)
(* tuple.  A BTreeMap is a function whose DOMAIN is the set of its keys.   *)
(***************************************************************************)
EXTENDS Integers, Sequences, FiniteSets, TLC

VARIABLES
    store,      \* Store { data, config, seq }: the Store an ordering runs on
    actors,     \* client id -> Actor { cache, config, crashed, unlinks }
    graph,      \* Planner.graph.nodes: the merged plan
    nodes,      \* permute's `nodes`: what remains of the ordering being run
    checker,    \* Checker { seq, errors }
    result,     \* Worker::run's outcome for the ordering: "none", "Pass", "Fail"
    scenario,   \* which scenario of main.rs is run (0: none)
    last,       \* history: the last operation, its arguments, result and pre-state
    nsucc,      \* history: the number of Store mutations that returned Some
    caches,     \* cache id -> Cache.data, for Caches used without an Actor
    hist,       \* history: what each Cache or Actor did before `last`
    steps       \* history: the number of operations performed

vars == <<store, actors, graph, nodes, checker, result, scenario, last, nsucc,
          caches, hist, steps>>

----------------------------------------------------------------------------
(* Option<T> *)

None == <<>>
Some(v) == <<v>>
is_some(o) == o # None
unwrap(o) == o[1]
unwrap_or(o, d) == IF o = None THEN d ELSE o[1]

(* BTreeMap::insert and BTreeMap::remove *)
MapInsert(m, k, v) == [x \in DOMAIN m \cup {k} |-> IF x = k THEN v ELSE m[x]]
MapRemove(m, k) == [x \in DOMAIN m \ {k} |-> m[x]]
EmptyMap == <<>>

(* A `let` binding: F applied to the value bound, which is computed once. *)
Let(v, F(_)) == F(v)

----------------------------------------------------------------------------
(* config.rs *)

ConfigDefault ==
    [update |-> "ReadsBeforeLinks", remove |-> "UnlinkReverseSequential",
     skip_links |-> FALSE, store |-> "Strict"]

Config_skip_links(config, mode) == [config EXCEPT !.skip_links = mode]
Config_store(config, mode) == [config EXCEPT !.store = mode]

----------------------------------------------------------------------------
(* Ord for str: byte-wise lexicographic.  Chars lists the characters the    *)
(* model uses in ascending byte order ('.' < '/' < 'a' < ... < 'z').        *)

Chars ==
    <<".", "/", "a", "b", "c", "d", "e", "f", "g", "h", "i", "j", "k", "l", "m",
      "n", "o", "p", "q", "r", "s", "t", "u", "v", "w", "x", "y", "z">>

CharOrd(c) == CHOOSE i \in DOMAIN Chars : Chars[i] = c

RECURSIVE str_lt(_, _)
str_lt(a, b) ==
    IF b = <<>> THEN FALSE
    ELSE IF a = <<>> THEN TRUE
    ELSE IF Head(a) = Head(b) THEN str_lt(Tail(a), Tail(b))
    ELSE CharOrd(Head(a)) < CharOrd(Head(b))

(* The keys of a BTreeMap in iteration order. *)
RECURSIVE sorted(_)
sorted(S) ==
    IF S = {} THEN <<>>
    ELSE LET m == CHOOSE x \in S : \A y \in S \ {x} : str_lt(x, y)
         IN  <<m>> \o sorted(S \ {m})

----------------------------------------------------------------------------
(* store.rs: Store<K, V>.  data maps a key to (rev, Option<V>). *)

Store_new(config) == [data |-> EmptyMap, config |-> config, seq |-> 0]

is_strict(s) == s.config.store = "Strict"

Store_get(s, key) ==
    IF key \in DOMAIN s.data /\ is_some(s.data[key][2])
    THEN Some(unwrap(s.data[key][2]))
    ELSE None

(* Mutant of Store_read: the lax branch in both modes. *)
Store_read_lax_only(s, key) ==
    IF key \in DOMAIN s.data /\ is_some(s.data[key][2])
    THEN Some(s.data[key])
    ELSE None

Store_read(s, key) ==
    IF is_strict(s)
    THEN IF key \in DOMAIN s.data THEN Some(s.data[key]) ELSE None
    ELSE IF key \in DOMAIN s.data /\ is_some(s.data[key][2])
         THEN Some(s.data[key])
         ELSE None

(* Mutants of set_key: plausible slips in the CAS. *)
set_key_none_is_wildcard(s, key, rev, value) ==
    LET data1 == IF key \in DOMAIN s.data THEN s.data
                 ELSE MapInsert(s.data, key, <<0, None>>)
        entry == data1[key]
    IN  IF rev # None /\ (is_strict(s) \/ is_some(entry[2])) /\ entry[1] # rev[1]
        THEN [store |-> [s EXCEPT !.data = data1], ret |-> None]
        ELSE [store |-> [s EXCEPT !.data = MapInsert(data1, key, <<entry[1] + 1, value>>),
                                  !.seq = s.seq + 1],
              ret |-> Some(entry[1] + 1)]

set_key_counts_attempts(s, key, rev, value) ==
    LET client_rev == unwrap_or(rev, 0)
        data1 == IF key \in DOMAIN s.data THEN s.data
                 ELSE MapInsert(s.data, key, <<0, None>>)
        entry == data1[key]
    IN  IF (is_strict(s) \/ is_some(entry[2])) /\ entry[1] # client_rev
        THEN [store |-> [s EXCEPT !.data = data1, !.seq = s.seq + 1], ret |-> None]
        ELSE [store |-> [s EXCEPT !.data = MapInsert(data1, key, <<entry[1] + 1, value>>),
                                  !.seq = s.seq + 1],
              ret |-> Some(entry[1] + 1)]

set_key_resets_rev(s, key, rev, value) ==
    LET client_rev == unwrap_or(rev, 0)
        data1 == IF key \in DOMAIN s.data THEN s.data
                 ELSE MapInsert(s.data, key, <<0, None>>)
        entry == data1[key]
        next == IF is_some(entry[2]) THEN entry[1] + 1 ELSE 1
    IN  IF (is_strict(s) \/ is_some(entry[2])) /\ entry[1] # client_rev
        THEN [store |-> [s EXCEPT !.data = data1], ret |-> None]
        ELSE [store |-> [s EXCEPT !.data = MapInsert(data1, key, <<next, value>>),
                                  !.seq = s.seq + 1],
              ret |-> Some(next)]

set_key_always_lax(s, key, rev, value) ==
    LET client_rev == unwrap_or(rev, 0)
        data1 == IF key \in DOMAIN s.data THEN s.data
                 ELSE MapInsert(s.data, key, <<0, None>>)
        entry == data1[key]
    IN  IF is_some(entry[2]) /\ entry[1] # client_rev
        THEN [store |-> [s EXCEPT !.data = data1], ret |-> None]
        ELSE [store |-> [s EXCEPT !.data = MapInsert(data1, key, <<entry[1] + 1, value>>),
                                  !.seq = s.seq + 1],
              ret |-> Some(entry[1] + 1)]

(* Mutant of set_key: the rev is checked in lax-delete mode as well. *)
set_key_always_strict(s, key, rev, value) ==
    LET client_rev == unwrap_or(rev, 0)
        data1 == IF key \in DOMAIN s.data THEN s.data ELSE MapInsert(s.data, key, <<0, None>>)
        entry == data1[key]
    IN  IF entry[1] # client_rev
        THEN [store |-> [s EXCEPT !.data = data1], ret |-> None]
        ELSE [store |-> [s EXCEPT !.data = MapInsert(data1, key, <<entry[1] + 1, value>>),
                                  !.seq = s.seq + 1],
              ret |-> Some(entry[1] + 1)]

(* set_key: entry(key).or_insert((0, None)) runs before the rev check, so   *)
(* the key is in the map afterwards whether or not the CAS succeeds.        *)
set_key(s, key, rev, value) ==
    LET client_rev == unwrap_or(rev, 0)
        data1 == IF key \in DOMAIN s.data THEN s.data
                 ELSE MapInsert(s.data, key, <<0, None>>)
        entry == data1[key]
    IN  IF (is_strict(s) \/ is_some(entry[2])) /\ entry[1] # client_rev
        THEN [store |-> [s EXCEPT !.data = data1], ret |-> None]
        ELSE [store |-> [s EXCEPT !.data = MapInsert(data1, key, <<entry[1] + 1, value>>),
                                  !.seq = s.seq + 1],
              ret |-> Some(entry[1] + 1)]

Store_write(s, key, rev, value) == set_key(s, key, rev, Some(value))

Store_remove(s, key, rev) == set_key(s, key, rev, None)

Store_keys(s) == sorted(DOMAIN s.data)

----------------------------------------------------------------------------
(* store.rs: Cache<K, V>.  The cache is its `data` map, key ->              *)
(* Option<(Rev, Option<V>)>; the Store it refers to is passed alongside.    *)

Cache_new == EmptyMap

get_rev(c, key) ==
    IF key \in DOMAIN c /\ is_some(c[key]) THEN Some(unwrap(c[key])[1]) ELSE None

(* Mutant of Cache_read: the record is fetched from the Store every time. *)
Cache_read_through(s, c, key) ==
    LET c1 == MapInsert(c, key, Store_read(s, key))
    IN  [cache |-> c1,
         ret |-> IF is_some(c1[key]) /\ is_some(unwrap(c1[key])[2])
                 THEN Some(unwrap(unwrap(c1[key])[2]))
                 ELSE None]

(* Mutant of Cache_write: a successful write is not recorded in the cache. *)
Cache_write_not_recorded(s, c, key, value) ==
    LET w == Store_write(s, key, get_rev(c, key), value)
    IN  IF is_some(w.ret)
        THEN [store |-> w.store, cache |-> c, ret |-> TRUE]
        ELSE [store |-> w.store, cache |-> MapRemove(c, key), ret |-> FALSE]

(* Mutant of Cache_write: a failed write keeps the cached entry. *)
Cache_write_keeps_entry(s, c, key, value) ==
    LET w == Store_write(s, key, get_rev(c, key), value)
    IN  IF is_some(w.ret)
        THEN [store |-> w.store,
              cache |-> MapInsert(c, key, Some(<<unwrap(w.ret), Some(value)>>)),
              ret |-> TRUE]
        ELSE [store |-> w.store, cache |-> c, ret |-> FALSE]

(* Mutant of Cache_write: the write is based on the Store's rev, not on the *)
(* rev the cache recorded.                                                  *)
Cache_write_blind(s, c, key, value) ==
    LET w == Store_write(s, key, Some(IF key \in DOMAIN s.data THEN s.data[key][1] ELSE 0),
                         value)
    IN  IF is_some(w.ret)
        THEN [store |-> w.store,
              cache |-> MapInsert(c, key, Some(<<unwrap(w.ret), Some(value)>>)),
              ret |-> TRUE]
        ELSE [store |-> w.store, cache |-> MapRemove(c, key), ret |-> FALSE]

(* Mutant of Cache_read: a tombstone fetched from the Store is memoized as *)
(* an absent record, without its rev.                                      *)
Cache_read_drops_tombstone(s, c, key) ==
    LET r  == Store_read(s, key)
        c1 == IF key \notin DOMAIN c
              THEN MapInsert(c, key, IF is_some(r) /\ is_some(unwrap(r)[2]) THEN r ELSE None)
              ELSE c
    IN  [cache |-> c1,
         ret |-> IF is_some(c1[key]) /\ is_some(unwrap(c1[key])[2])
                 THEN Some(unwrap(unwrap(c1[key])[2]))
                 ELSE None]

Cache_read(s, c, key) ==
    Let(IF key \notin DOMAIN c THEN MapInsert(c, key, Store_read(s, key)) ELSE c,
        LAMBDA c1 :
            [cache |-> c1,
             ret |-> IF is_some(c1[key]) /\ is_some(unwrap(c1[key])[2])
                     THEN Some(unwrap(unwrap(c1[key])[2]))
                     ELSE None])

(* Mutant of Cache_write: a successful write records the rev after the one *)
(* the Store assigned.                                                     *)
Cache_write_records_next_rev(s, c, key, value) ==
    LET w == Store_write(s, key, get_rev(c, key), value)
    IN  IF is_some(w.ret)
        THEN [store |-> w.store,
              cache |-> MapInsert(c, key, Some(<<unwrap(w.ret) + 1, Some(value)>>)),
              ret |-> TRUE]
        ELSE [store |-> w.store, cache |-> MapRemove(c, key), ret |-> FALSE]

Cache_write(s, c, key, value) ==
    LET old_rev == get_rev(c, key)
    IN  Let(Store_write(s, key, old_rev, value),
            LAMBDA w :
                IF is_some(w.ret)
                THEN [store |-> w.store,
                      cache |-> MapInsert(c, key, Some(<<unwrap(w.ret), Some(value)>>)),
                      ret |-> TRUE]
                ELSE [store |-> w.store, cache |-> MapRemove(c, key), ret |-> FALSE])

(* Mutant of Cache_remove: a successful remove records the tombstone with  *)
(* its new rev.                                                            *)
Cache_remove_records_rev(s, c, key) ==
    LET w == Store_remove(s, key, get_rev(c, key))
    IN  IF is_some(w.ret)
        THEN [store |-> w.store,
              cache |-> MapInsert(c, key, Some(<<unwrap(w.ret), None>>)),
              ret |-> TRUE]
        ELSE [store |-> w.store, cache |-> MapRemove(c, key), ret |-> FALSE]

Cache_remove(s, c, key) ==
    LET old_rev == get_rev(c, key)
    IN  Let(Store_remove(s, key, old_rev),
            LAMBDA w :
                IF is_some(w.ret)
                THEN [store |-> w.store, cache |-> MapInsert(c, key, None), ret |-> TRUE]
                ELSE [store |-> w.store, cache |-> MapRemove(c, key), ret |-> FALSE])

----------------------------------------------------------------------------
(* path.rs *)

SEP == "/"

(* str::split(SEP) *)
RECURSIVE split(_)
split(s) ==
    IF s = <<>> THEN << <<>> >>
    ELSE Let(split(Tail(s)),
             LAMBDA rest :
                 IF Head(s) = SEP
                 THEN << <<>> >> \o rest
                 ELSE << <<Head(s)>> \o rest[1] >> \o Tail(rest))

(* [String]::join("") *)
RECURSIVE join(_)
join(ss) == IF ss = <<>> THEN <<>> ELSE Head(ss) \o join(Tail(ss))

(* Mutant of split_inclusive: an empty last piece is kept. *)
split_inclusive_keeps_empty(parts0) ==
    [i \in 1..Len(parts0) |->
        IF i < Len(parts0) THEN Append(parts0[i], SEP) ELSE parts0[i]]

(* split_inclusive(SEP): every piece but the last keeps its separator, and *)
(* there is no empty last piece.                                            *)
split_inclusive(parts0) ==
    Let([i \in 1..Len(parts0) |->
            IF i < Len(parts0) THEN Append(parts0[i], SEP) ELSE parts0[i]],
        LAMBDA parts1 :
            IF parts1[Len(parts1)] = <<>>
            THEN SubSeq(parts1, 1, Len(parts1) - 1)
            ELSE parts1)

parse(path) ==
    Let(split_inclusive(split(path)),
        LAMBDA parts :
            [i \in 1..(Len(parts) - 1) |-> <<join(SubSeq(parts, 1, i)), parts[i + 1]>>])

Path_new(name) == [original |-> name, parts |-> parse(name)]

is_dir(path) == path.original # <<>> /\ path.original[Len(path.original)] = SEP
is_doc(path) == ~is_dir(path)
full(path) == path.original
dirs(path) == [i \in 1..Len(path.parts) |-> path.parts[i][1]]
links(path) == path.parts

----------------------------------------------------------------------------
(* db.rs: enum Db<T> *)

Doc(value) == [tag |-> "Doc", value |-> value]
Dir(entries) == [tag |-> "Dir", entries |-> entries]

----------------------------------------------------------------------------
(* planner.rs: Op<T> and Act<T>.  The closure of a Put is one of the two    *)
(* shapes main.rs uses: |_| Some(v), and doc.map(|(k, n)| (k, n + 1)).      *)

OpGet == [tag |-> "Get"]
OpPut(update) == [tag |-> "Put", update |-> update]
OpRm == [tag |-> "Rm"]
OpList == [tag |-> "List"]
OpLink(name) == [tag |-> "Link", name |-> name]
OpUnlink(name) == [tag |-> "Unlink", name |-> name]

SetTo(value) == [kind |-> "set", value |-> value]
Increment == [kind |-> "increment"]

call(update, doc) ==
    IF update.kind = "set" THEN Some(update.value)
    ELSE IF doc = None THEN None
    ELSE Some(<<unwrap(doc)[1], unwrap(doc)[2] + 1>>)

Act_new(client_id, path, op) == [client_id |-> client_id, path |-> path, op |-> op]

----------------------------------------------------------------------------
(* actor.rs.  Every operation takes the shared Store and the Actor and      *)
(* returns both as they are afterwards, with the operation's result.        *)

Actor_new(config) ==
    [cache |-> Cache_new, config |-> config, crashed |-> FALSE, unlinks |-> {}]

Actor_get(s, a, path) ==
    IF a.crashed THEN [store |-> s, actor |-> a, ret |-> None]
    ELSE Let(Cache_read(s, a.cache, full(path)),
             LAMBDA r :
                 [store |-> s,
                  actor |-> [a EXCEPT !.cache = r.cache],
                  ret |-> IF is_some(r.ret) /\ unwrap(r.ret).tag = "Doc"
                          THEN Some(unwrap(r.ret).value)
                          ELSE None])

Actor_list(s, a, path) ==
    IF a.crashed THEN [store |-> s, actor |-> a, ret |-> None]
    ELSE Let(Cache_read(s, a.cache, full(path)),
             LAMBDA r :
                 [store |-> s,
                  actor |-> [a EXCEPT !.cache = r.cache],
                  ret |-> IF is_some(r.ret) /\ unwrap(r.ret).tag = "Dir"
                          THEN Some(unwrap(r.ret).entries)
                          ELSE None])

(* Mutant of Actor_write: a failed write does not latch the crash. *)
Actor_write_ignores_failure(s, a, key, value) ==
    LET w == Cache_write(s, a.cache, full(key), value)
    IN  [store |-> w.store, actor |-> [a EXCEPT !.cache = w.cache], ret |-> None]

Actor_write(s, a, key, value) ==
    Let(Cache_write(s, a.cache, full(key), value),
        LAMBDA w :
            [store |-> w.store,
             actor |-> [a EXCEPT !.cache = w.cache,
                                 !.crashed = IF w.ret THEN a.crashed ELSE TRUE],
             ret |-> None])

Actor_put(s, a, path, update) ==
    IF a.crashed THEN [store |-> s, actor |-> a, ret |-> None]
    ELSE Let(Actor_get(s, a, path),
             LAMBDA g :
                 Let(call(update, g.ret),
                     LAMBDA v :
                         IF is_some(v)
                         THEN Actor_write(g.store, g.actor, path, Doc(unwrap(v)))
                         ELSE [store |-> g.store, actor |-> g.actor, ret |-> None]))

(* Mutant of rm_walk: the walk does not stop at a directory that has       *)
(* other entries.                                                           *)
RECURSIVE rm_walk_never_stops(_, _, _, _)
rm_walk_never_stops(s, a, lnks, i) ==
    IF i = 0 THEN [store |-> s, actor |-> a, ret |-> None]
    ELSE LET a1 == [a EXCEPT !.unlinks = a.unlinks \cup {lnks[i][1]}]
             l == Actor_list(s, a1, Path_new(lnks[i][1]))
         IN  rm_walk_never_stops(l.store, l.actor, lnks, i - 1)

(* Mutant of rm_walk: the listing is checked before the directory is       *)
(* inserted into unlinks.                                                   *)
RECURSIVE rm_walk_checks_first(_, _, _, _)
rm_walk_checks_first(s, a, lnks, i) ==
    IF i = 0 THEN [store |-> s, actor |-> a, ret |-> None]
    ELSE LET l == Actor_list(s, a, Path_new(lnks[i][1]))
         IN  IF l.ret # Some({lnks[i][2]})
             THEN [store |-> l.store, actor |-> l.actor, ret |-> None]
             ELSE rm_walk_checks_first(
                      l.store,
                      [l.actor EXCEPT !.unlinks = l.actor.unlinks \cup {lnks[i][1]}],
                      lnks, i - 1)

(* The loop of rm over path.links().rev(), from link number i downwards. *)
RECURSIVE rm_walk(_, _, _, _)
rm_walk(s, a, lnks, i) ==
    IF i = 0 THEN [store |-> s, actor |-> a, ret |-> None]
    ELSE LET dir == lnks[i][1]
             name == lnks[i][2]
             a1 == [a EXCEPT !.unlinks = a.unlinks \cup {dir}]
         IN  Let(Actor_list(s, a1, Path_new(dir)),
                 LAMBDA l :
                     IF l.ret # Some({name})
                     THEN [store |-> l.store, actor |-> l.actor, ret |-> None]
                     ELSE rm_walk(l.store, l.actor, lnks, i - 1))

(* Mutant of Actor_rm: the ancestors are not walked, unlinks stays empty. *)
Actor_rm_no_walk(s, a, path) ==
    IF a.crashed THEN [store |-> s, actor |-> a, ret |-> None]
    ELSE LET g == Actor_get(s, a, path)
             r == Cache_remove(g.store, g.actor.cache, full(path))
         IN  IF g.ret = None THEN [store |-> g.store, actor |-> g.actor, ret |-> None]
             ELSE IF ~r.ret
             THEN [store |-> r.store,
                   actor |-> [g.actor EXCEPT !.cache = r.cache, !.crashed = TRUE],
                   ret |-> None]
             ELSE [store |-> r.store,
                   actor |-> [g.actor EXCEPT !.cache = r.cache, !.unlinks = {}],
                   ret |-> None]

(* Mutant of Actor_rm: the directories of an earlier Rm stay in unlinks. *)
Actor_rm_keeps_unlinks(s, a, path) ==
    IF a.crashed THEN [store |-> s, actor |-> a, ret |-> None]
    ELSE LET g == Actor_get(s, a, path)
             r == Cache_remove(g.store, g.actor.cache, full(path))
         IN  IF g.ret = None THEN [store |-> g.store, actor |-> g.actor, ret |-> None]
             ELSE IF ~r.ret
             THEN [store |-> r.store,
                   actor |-> [g.actor EXCEPT !.cache = r.cache, !.crashed = TRUE],
                   ret |-> None]
             ELSE rm_walk(r.store, [g.actor EXCEPT !.cache = r.cache],
                          links(path), Len(links(path)))

(* Mutant of Actor_rm: unlinks is emptied before the remove is attempted. *)
Actor_rm_resets_first(s, a, path) ==
    IF a.crashed THEN [store |-> s, actor |-> a, ret |-> None]
    ELSE LET g == Actor_get(s, a, path)
             r == Cache_remove(g.store, g.actor.cache, full(path))
         IN  IF g.ret = None THEN [store |-> g.store, actor |-> g.actor, ret |-> None]
             ELSE IF ~r.ret
             THEN [store |-> r.store,
                   actor |-> [g.actor EXCEPT !.cache = r.cache, !.crashed = TRUE,
                                             !.unlinks = {}],
                   ret |-> None]
             ELSE rm_walk(r.store, [g.actor EXCEPT !.cache = r.cache, !.unlinks = {}],
                          links(path), Len(links(path)))

Actor_rm(s, a, path) ==
    IF a.crashed THEN [store |-> s, actor |-> a, ret |-> None]
    ELSE Let(Actor_get(s, a, path),
             LAMBDA g :
                 IF g.ret = None THEN [store |-> g.store, actor |-> g.actor, ret |-> None]
                 ELSE Let(Cache_remove(g.store, g.actor.cache, full(path)),
                          LAMBDA r :
                              IF ~r.ret
                              THEN [store |-> r.store,
                                    actor |-> [g.actor EXCEPT !.cache = r.cache,
                                                              !.crashed = TRUE],
                                    ret |-> None]
                              ELSE rm_walk(r.store,
                                           [g.actor EXCEPT !.cache = r.cache,
                                                           !.unlinks = {}],
                                           links(path), Len(links(path)))))

(* Mutant of Actor_link: a crashed Actor still links. *)
Actor_link_when_crashed(s, a, path, entry) ==
    LET l == Actor_list(s, a, path)
        entries == unwrap_or(l.ret, {})
    IN  IF ~a.config.skip_links \/ entry \notin entries
        THEN Actor_write(l.store, l.actor, path, Dir(entries \cup {entry}))
        ELSE [store |-> l.store, actor |-> l.actor, ret |-> None]

(* Mutant of Actor_link: an entry already listed is never written again. *)
Actor_link_always_skips(s, a, path, entry) ==
    IF a.crashed THEN [store |-> s, actor |-> a, ret |-> None]
    ELSE LET l == Actor_list(s, a, path)
             entries == unwrap_or(l.ret, {})
         IN  IF entry \notin entries
             THEN Actor_write(l.store, l.actor, path, Dir(entries \cup {entry}))
             ELSE [store |-> l.store, actor |-> l.actor, ret |-> None]

Actor_link(s, a, path, entry) ==
    IF a.crashed THEN [store |-> s, actor |-> a, ret |-> None]
    ELSE Let(Actor_list(s, a, path),
             LAMBDA l :
                 LET entries == unwrap_or(l.ret, {})
                 IN  IF ~a.config.skip_links \/ entry \notin entries
                     THEN Actor_write(l.store, l.actor, path, Dir(entries \cup {entry}))
                     ELSE [store |-> l.store, actor |-> l.actor, ret |-> None])

(* Mutant of Actor_unlink: the unlinks set is not consulted. *)
Actor_unlink_unguarded(s, a, path, entry) ==
    IF a.crashed THEN [store |-> s, actor |-> a, ret |-> None]
    ELSE LET l == Actor_list(s, a, path)
             entries == unwrap_or(l.ret, {})
         IN  Actor_write(l.store, l.actor, path, Dir(entries \ {entry}))

(* Mutant of Actor_unlink: any directory is unlinked once unlinks is not   *)
(* empty.                                                                   *)
Actor_unlink_any_dir(s, a, path, entry) ==
    IF ~a.crashed /\ a.unlinks # {}
    THEN LET l == Actor_list(s, a, path)
             entries == unwrap_or(l.ret, {})
         IN  Actor_write(l.store, l.actor, path, Dir(entries \ {entry}))
    ELSE [store |-> s, actor |-> a, ret |-> None]

Actor_unlink(s, a, path, entry) ==
    IF ~a.crashed /\ full(path) \in a.unlinks
    THEN Let(Actor_list(s, a, path),
             LAMBDA l :
                 Actor_write(l.store, l.actor, path, Dir(unwrap_or(l.ret, {}) \ {entry})))
    ELSE [store |-> s, actor |-> a, ret |-> None]

dispatch(s, a, act) ==
    CASE act.op.tag = "Get" -> [Actor_get(s, a, act.path) EXCEPT !.ret = None]
      [] act.op.tag = "Put" -> Actor_put(s, a, act.path, act.op.update)
      [] act.op.tag = "Rm" -> Actor_rm(s, a, act.path)
      [] act.op.tag = "List" -> [Actor_list(s, a, act.path) EXCEPT !.ret = None]
      [] act.op.tag = "Link" -> Actor_link(s, a, act.path, act.op.name)
      [] act.op.tag = "Unlink" -> Actor_unlink(s, a, act.path, act.op.name)

----------------------------------------------------------------------------
(* db.rs: Checker.  A Result is Ok or Err(errors); an error message is the  *)
(* string format! builds.                                                   *)

Ok == [ok |-> TRUE, errors |-> <<>>]
Err(errors) == [ok |-> FALSE, errors |-> errors]

Checker_new == [seq |-> 0, errors |-> <<>>]

MsgNotIncluded(dir, name, doc) ==
    <<"d", "i", "r", " ", "'">> \o dir \o <<"'", " ", "d", "o", "e", "s", " ", "n", "o", "t", " ", "i", "n", "c", "l", "u", "d", "e", " ", "n", "a", "m", "e", " ", "'">> \o name \o <<"'", ",", " ", "r", "e", "q", "u", "i", "r", "e", "d", " ", "b", "y", " ", "d", "o", "c", " ", "'">> \o doc \o <<"'">>

MsgMissing(dir, doc) ==
    <<"d", "i", "r", " ", "'">> \o dir \o <<"'", ",", " ", "r", "e", "q", "u", "i", "r", "e", "d", " ", "b", "y", " ", "d", "o", "c", " ", "'">> \o doc \o <<"'", ",", " ", "i", "s", " ", "m", "i", "s", "s", "i", "n", "g">>

RECURSIVE check_doc_from(_, _, _)
check_doc_from(s, doc, i) ==
    IF i > Len(links(doc)) THEN <<>>
    ELSE LET dir == links(doc)[i][1]
             name == links(doc)[i][2]
         IN  Let(Store_get(s, dir),
                 LAMBDA got :
                     IF is_some(got) /\ unwrap(got).tag = "Dir"
                     THEN IF name \notin unwrap(got).entries
                          THEN <<MsgNotIncluded(dir, name, full(doc))>>
                          ELSE <<>>
                     ELSE <<MsgMissing(dir, full(doc))>>)
             \o check_doc_from(s, doc, i + 1)

check_doc(s, doc) == check_doc_from(s, doc, 1)

RECURSIVE check_keys(_, _, _)
check_keys(s, keys, i) ==
    IF i > Len(keys) THEN <<>>
    ELSE Let(Path_new(keys[i]),
             LAMBDA path :
                 IF is_doc(path) /\ is_some(Store_get(s, keys[i]))
                 THEN check_doc(s, path) ELSE <<>>)
         \o check_keys(s, keys, i + 1)

(* Mutant of Checker_check: seq is recorded after a failed check as well. *)
Checker_check_records_seq(ck, s) ==
    IF ck.seq = s.seq THEN [checker |-> ck, ret |-> Ok]
    ELSE LET errors == check_keys(s, Store_keys(s), 1)
         IN  IF errors = <<>>
             THEN [checker |-> [seq |-> s.seq, errors |-> <<>>], ret |-> Ok]
             ELSE [checker |-> [seq |-> s.seq, errors |-> errors], ret |-> Err(errors)]

Checker_check(ck, s) ==
    IF ck.seq = s.seq THEN [checker |-> ck, ret |-> Ok]
    ELSE Let(check_keys(s, Store_keys(s), 1),
             LAMBDA errors :
                 IF errors = <<>>
                 THEN [checker |-> [seq |-> s.seq, errors |-> <<>>], ret |-> Ok]
                 ELSE [checker |-> [ck EXCEPT !.errors = errors], ret |-> Err(errors)])

----------------------------------------------------------------------------
(* graph.rs.  A Graph is its `nodes` vector; permute works on the list of   *)
(* (id, deps) pairs.                                                        *)

Graph_new == <<>>

(* Mutant of Graph_add: ids are counted from 0. *)
Graph_add_from_zero(g, deps, value) ==
    [graph |-> Append(g, [id |-> Len(g), deps |-> deps, value |-> value]),
     id |-> Len(g)]

Graph_add(g, deps, value) ==
    [graph |-> Append(g, [id |-> Len(g) + 1, deps |-> deps, value |-> value]),
     id |-> Len(g) + 1]

Graph_nodes(g) == [i \in 1..Len(g) |-> <<g[i].id, g[i].deps>>]

RECURSIVE permute(_)

(* Mutant of available: every node is available, whatever its deps. *)
available_ignores_deps(ns) == [i \in 1..Len(ns) |-> ns[i][1]]

(* permute: the ids of the nodes without deps, in the order of `nodes`. *)
available(ns) ==
    Let(SelectSeq(ns, LAMBDA n : n[2] = <<>>),
        LAMBDA free : [i \in 1..Len(free) |-> free[i][1]])

(* permute: `nodes` without `action`, and without `action` in any deps. *)
remaining(ns, action) ==
    Let(SelectSeq(ns, LAMBDA n : n[1] # action),
        LAMBDA others :
            [i \in 1..Len(others) |->
                <<others[i][1], SelectSeq(others[i][2], LAMBDA dep : dep # action)>>])

(* Mutant of permute_from: only the first available node is tried. *)
permute_from_first_only(ns, avail, i) ==
    IF i > Len(avail) \/ i > 1 THEN <<>>
    ELSE LET others == permute(remaining(ns, avail[i]))
         IN  [j \in 1..Len(others) |-> <<avail[i]>> \o others[j]]

(* Mutant of permute_from: the available nodes are tried last to first. *)
RECURSIVE permute_from_reversed(_, _, _)
permute_from_reversed(ns, avail, i) ==
    IF i > Len(avail) THEN <<>>
    ELSE LET action == avail[Len(avail) + 1 - i]
             others == permute(remaining(ns, action))
         IN  [j \in 1..Len(others) |-> <<action>> \o others[j]]
             \o permute_from_reversed(ns, avail, i + 1)

(* permute's flat_map over `available`, from its i-th element on: for each  *)
(* action in turn, action chained before each ordering of the remaining     *)
(* nodes.                                                                   *)
RECURSIVE permute_from(_, _, _)
permute_from(ns, avail, i) ==
    IF i > Len(avail) THEN <<>>
    ELSE Let(permute(remaining(ns, avail[i])),
             LAMBDA others : [j \in 1..Len(others) |-> <<avail[i]>> \o others[j]])
         \o permute_from(ns, avail, i + 1)

(* permute: the orderings in the order the iterator yields them; one empty  *)
(* ordering for no nodes.                                                   *)
permute(ns) ==
    IF ns = <<>> THEN << <<>> >> ELSE permute_from(ns, available(ns), 1)

(* Graph::orderings, as node ids. *)
Graph_orderings(g) == permute(Graph_nodes(g))

(* orderings().next(): the first ordering permute yields. *)
RECURSIVE first_ordering(_)
first_ordering(ns) ==
    IF ns = <<>> THEN <<>>
    ELSE Let(available(ns)[1],
             LAMBDA action : <<action>> \o first_ordering(remaining(ns, action)))

----------------------------------------------------------------------------
(* planner.rs: Planner and Client.  A Client is (id, graph, config); its    *)
(* operations return the graph as they leave it.                            *)

Planner_new(config) == [graph |-> Graph_new, config |-> config, clients |-> {}]

Planner_client(pl, id) ==
    [planner |-> [pl EXCEPT !.clients = pl.clients \cup {id}],
     client |-> [id |-> id, graph |-> pl.graph, config |-> pl.config]]

Planner_clients(pl) == pl.clients

RECURSIVE add_lists(_, _, _, _)
add_lists(id, g, ds, i) ==
    IF i > Len(ds) THEN [graph |-> g, ids |-> <<>>]
    ELSE Let(Graph_add(g, <<>>, Act_new(id, Path_new(ds[i]), OpList)),
             LAMBDA n :
                 Let(add_lists(id, n.graph, ds, i + 1),
                     LAMBDA rest : [graph |-> rest.graph, ids |-> <<n.id>> \o rest.ids]))

do_reads(cl, path) ==
    Let(add_lists(cl.id, cl.graph, dirs(path), 1),
        LAMBDA ls :
            Let(Graph_add(ls.graph, <<>>, Act_new(cl.id, path, OpGet)),
                LAMBDA get : [graph |-> get.graph, reads |-> Append(ls.ids, get.id)]))

(* Mutant of add_links: each Link waits for the Get only. *)
RECURSIVE add_links_after_get(_, _, _, _, _)
add_links_after_get(id, g, lnks, i, deps) ==
    IF i > Len(lnks) THEN [graph |-> g, ids |-> <<>>]
    ELSE LET n == Graph_add(g, <<deps[Len(deps)]>>,
                            Act_new(id, Path_new(lnks[i][1]), OpLink(lnks[i][2])))
             rest == add_links_after_get(id, n.graph, lnks, i + 1, deps)
         IN  [graph |-> rest.graph, ids |-> <<n.id>> \o rest.ids]

RECURSIVE add_links(_, _, _, _, _)
add_links(id, g, lnks, i, deps) ==
    IF i > Len(lnks) THEN [graph |-> g, ids |-> <<>>]
    ELSE Let(Graph_add(g, deps, Act_new(id, Path_new(lnks[i][1]), OpLink(lnks[i][2]))),
             LAMBDA n :
                 Let(add_links(id, n.graph, lnks, i + 1, deps),
                     LAMBDA rest : [graph |-> rest.graph, ids |-> <<n.id>> \o rest.ids]))

(* Mutant of update_reads_before_links: the Put waits for the reads only. *)
update_put_before_links(cl, key, update) ==
    Let(Path_new(key),
        LAMBDA path :
            Let(do_reads(cl, path),
                LAMBDA r :
                    Let(add_links(cl.id, r.graph, links(path), 1, r.reads),
                        LAMBDA ls :
                            Graph_add(ls.graph, r.reads,
                                      Act_new(cl.id, path, OpPut(update))).graph)))

update_reads_before_links(cl, key, update) ==
    Let(Path_new(key),
        LAMBDA path :
            Let(do_reads(cl, path),
                LAMBDA r :
                    Let(add_links(cl.id, r.graph, links(path), 1, r.reads),
                        LAMBDA ls :
                            Graph_add(ls.graph, ls.ids,
                                      Act_new(cl.id, path, OpPut(update))).graph)))

RECURSIVE add_list_links(_, _, _, _)
add_list_links(id, g, lnks, i) ==
    IF i > Len(lnks) THEN [graph |-> g, ids |-> <<>>]
    ELSE Let(Graph_add(g, <<>>, Act_new(id, Path_new(lnks[i][1]), OpList)),
             LAMBDA list :
                 Let(Graph_add(list.graph, <<list.id>>,
                               Act_new(id, Path_new(lnks[i][1]), OpLink(lnks[i][2]))),
                     LAMBDA link :
                         Let(add_list_links(id, link.graph, lnks, i + 1),
                             LAMBDA rest :
                                 [graph |-> rest.graph, ids |-> <<link.id>> \o rest.ids])))

update_get_before_put(cl, key, update) ==
    Let(Path_new(key),
        LAMBDA path :
            Let(add_list_links(cl.id, cl.graph, links(path), 1),
                LAMBDA ls :
                    Let(Graph_add(ls.graph, <<>>, Act_new(cl.id, path, OpGet)),
                        LAMBDA get :
                            Graph_add(get.graph, <<get.id>> \o ls.ids,
                                      Act_new(cl.id, path, OpPut(update))).graph)))

(* Mutant of Client_update: the get-before-put plan whatever the config. *)
Client_update_get_before_put(cl, key, update) == update_get_before_put(cl, key, update)

Client_update(cl, key, update) ==
    IF cl.config.update = "GetBeforePut"
    THEN update_get_before_put(cl, key, update)
    ELSE update_reads_before_links(cl, key, update)

(* Mutant of add_unlink_chain: the chain runs from the root downwards. *)
RECURSIVE add_unlink_chain_from_root(_, _, _, _, _)
add_unlink_chain_from_root(id, g, lnks, i, op) ==
    IF i = 0 THEN g
    ELSE LET k == Len(lnks) + 1 - i
             n == Graph_add(g, <<op>>, Act_new(id, Path_new(lnks[k][1]), OpUnlink(lnks[k][2])))
         IN  add_unlink_chain_from_root(id, n.graph, lnks, i - 1, n.id)

(* The unlink chain, from link number i downwards, each depending on `op`. *)
RECURSIVE add_unlink_chain(_, _, _, _, _)
add_unlink_chain(id, g, lnks, i, op) ==
    IF i = 0 THEN g
    ELSE Let(Graph_add(g, <<op>>, Act_new(id, Path_new(lnks[i][1]), OpUnlink(lnks[i][2]))),
             LAMBDA n : add_unlink_chain(id, n.graph, lnks, i - 1, n.id))

remove_unlink_reverse_sequential(cl, key) ==
    Let(Path_new(key),
        LAMBDA path :
            Let(do_reads(cl, path),
                LAMBDA r :
                    Let(Graph_add(r.graph, r.reads, Act_new(cl.id, path, OpRm)),
                        LAMBDA rm :
                            add_unlink_chain(cl.id, rm.graph, links(path),
                                             Len(links(path)), rm.id))))

RECURSIVE add_unlinks(_, _, _, _, _)
add_unlinks(id, g, lnks, i, rm) ==
    IF i > Len(lnks) THEN g
    ELSE Let(Graph_add(g, <<rm>>, Act_new(id, Path_new(lnks[i][1]), OpUnlink(lnks[i][2]))),
             LAMBDA n : add_unlinks(id, n.graph, lnks, i + 1, rm))

remove_unlink_parallel(cl, key) ==
    Let(Path_new(key),
        LAMBDA path :
            Let(do_reads(cl, path),
                LAMBDA r :
                    Let(Graph_add(r.graph, r.reads, Act_new(cl.id, path, OpRm)),
                        LAMBDA rm :
                            add_unlinks(cl.id, rm.graph, links(path), 1, rm.id))))

(* Mutant of Client_remove: the parallel-unlink plan whatever the config. *)
Client_remove_unlink_parallel(cl, key) == remove_unlink_parallel(cl, key)

Client_remove(cl, key) ==
    IF cl.config.remove = "UnlinkParallel"
    THEN remove_unlink_parallel(cl, key)
    ELSE remove_unlink_reverse_sequential(cl, key)

----------------------------------------------------------------------------
(* main.rs: the scenarios.  init is what the setup closure asks of the      *)
(* client "tmp", plan what the run closure asks of the planner's clients.   *)

Root == <<"/">>
PathDir == <<"/", "p", "a", "t", "h", "/">>
PathToDir == <<"/", "p", "a", "t", "h", "/", "t", "o", "/">>
PathX == <<"/", "p", "a", "t", "h", "/", "x">>
PathY == <<"/", "p", "a", "t", "h", "/", "y">>
PathToX == <<"/", "p", "a", "t", "h", "/", "t", "o", "/", "x">>
PathToY == <<"/", "p", "a", "t", "h", "/", "t", "o", "/", "y">>
X == <<"/", "x">>
Y == <<"/", "y">>

Update(client, key, update) ==
    [client |-> client, kind |-> "update", key |-> key, update |-> update]
Remove(client, key) ==
    [client |-> client, kind |-> "remove", key |-> key, update |-> Increment]

Scenarios ==
    <<
      [name |-> "update/update conflict",
       init |-> <<Update("tmp", PathX, SetTo(<<"x", 1>>))>>,
       plan |-> <<Update("A", PathX, SetTo(<<"x", 2>>)),
                 Update("B", PathX, SetTo(<<"x", 3>>))>>],
      [name |-> "update/update conflict (missing)",
       init |-> <<Update("tmp", PathX, SetTo(<<"x", 1>>))>>,
       plan |-> <<Update("A", PathY, SetTo(<<"y", 2>>)),
                 Update("B", PathY, SetTo(<<"y", 3>>))>>],
      [name |-> "update/delete conflict",
       init |-> <<Update("tmp", PathX, SetTo(<<"x", 1>>))>>,
       plan |-> <<Update("A", PathX, SetTo(<<"x", 2>>)),
                 Remove("B", PathX)>>],
      [name |-> "update/delete conflict (missing)",
       init |-> <<Update("tmp", PathX, SetTo(<<"x", 1>>))>>,
       plan |-> <<Update("A", PathY, SetTo(<<"y", 2>>)),
                 Remove("B", PathY)>>],
      [name |-> "delete, create sibling",
       init |-> <<Update("tmp", PathX, SetTo(<<"x", 1>>))>>,
       plan |-> <<Remove("A", PathX),
                 Update("B", PathY, SetTo(<<"y", 2>>))>>],
      [name |-> "delete, create in parent",
       init |-> <<Update("tmp", PathToX, SetTo(<<"x", 1>>))>>,
       plan |-> <<Remove("A", PathToX),
                 Update("B", PathY, SetTo(<<"y", 2>>))>>],
      [name |-> "delete, create in grandparent",
       init |-> <<Update("tmp", PathToX, SetTo(<<"x", 1>>))>>,
       plan |-> <<Remove("A", PathToX),
                 Update("B", Y, SetTo(<<"y", 2>>))>>],
      [name |-> "delete, create in child",
       init |-> <<Update("tmp", PathX, SetTo(<<"x", 1>>))>>,
       plan |-> <<Remove("A", PathX),
                 Update("B", PathToY, SetTo(<<"y", 2>>))>>],
      [name |-> "delete, create in grandchild",
       init |-> <<Update("tmp", X, SetTo(<<"x", 1>>))>>,
       plan |-> <<Remove("A", X),
                 Update("B", PathToY, SetTo(<<"y", 2>>))>>],
      [name |-> "delete, update sibling",
       init |-> <<Update("tmp", PathX, SetTo(<<"x", 1>>)),
                 Update("tmp", PathY, SetTo(<<"y", 1>>))>>,
       plan |-> <<Remove("A", PathX),
                 Update("B", PathY, Increment)>>],
      [name |-> "delete, update in parent",
       init |-> <<Update("tmp", PathToX, SetTo(<<"x", 1>>)),
                 Update("tmp", PathY, SetTo(<<"y", 1>>))>>,
       plan |-> <<Remove("A", PathToX),
                 Update("B", PathY, Increment)>>],
      [name |-> "delete, update in grandparent",
       init |-> <<Update("tmp", PathToX, SetTo(<<"x", 1>>)),
                 Update("tmp", Y, SetTo(<<"y", 1>>))>>,
       plan |-> <<Remove("A", PathToX),
                 Update("B", Y, Increment)>>],
      [name |-> "delete, update in child",
       init |-> <<Update("tmp", PathX, SetTo(<<"x", 1>>)),
                 Update("tmp", PathToY, SetTo(<<"y", 1>>))>>,
       plan |-> <<Remove("A", PathX),
                 Update("B", PathToY, Increment)>>],
      [name |-> "delete, update in grandchild",
       init |-> <<Update("tmp", X, SetTo(<<"x", 1>>)),
                 Update("tmp", PathToY, SetTo(<<"y", 1>>))>>,
       plan |-> <<Remove("A", X),
                 Update("B", PathToY, Increment)>>]
    >>

(* planner.client(id).update(key, f) or planner.client(id).remove(key) *)
plan_call(pl, c) ==
    Let(Planner_client(pl, c.client),
        LAMBDA pc :
            [pc.planner EXCEPT !.graph =
                IF c.kind = "update" THEN Client_update(pc.client, c.key, c.update)
                ELSE Client_remove(pc.client, c.key)])

RECURSIVE plan_calls(_, _, _)
plan_calls(pl, calls, i) ==
    IF i > Len(calls) THEN pl ELSE plan_calls(plan_call(pl, calls[i]), calls, i + 1)

----------------------------------------------------------------------------
(* runner.rs: RunnerScenario and the execution of one ordering by a Worker. *)

(* The history variable `last` before any operation. *)
NoOp(s) ==
    [op |-> "new", key |-> <<>>, rev |-> None, value |-> None, ret |-> None,
     before |-> s]

RunnerScenario_new(config, sc) ==
    [config |-> config, scenario |-> sc,
     planner |-> plan_calls(Planner_new(config), sc.plan, 1)]

(* create_store's loop: one Actor dispatches the acts of `order` in turn. *)
RECURSIVE dispatch_all(_, _, _, _, _)
dispatch_all(s, a, g, order, i) ==
    IF i > Len(order) THEN s
    ELSE Let(dispatch(s, a, g[order[i]].value),
             LAMBDA r : dispatch_all(r.store, r.actor, g, order, i + 1))

create_store(rs) ==
    Let(plan_calls(Planner_new(rs.config), rs.scenario.init, 1),
        LAMBDA planner :
            dispatch_all(Store_new(rs.config), Actor_new(rs.config), planner.graph,
                         first_ordering(Graph_nodes(planner.graph)), 1))

create_actors(config, client_ids) == [id \in client_ids |-> Actor_new(config)]

InitRun(configs, scenarios) ==
    \E config \in configs, n \in scenarios :
        \E rs \in {RunnerScenario_new(config, Scenarios[n])} :
            /\ scenario = n
            /\ graph = rs.planner.graph
            /\ nodes = Graph_nodes(rs.planner.graph)
            /\ store = create_store(rs)
            /\ actors = create_actors(config, Planner_clients(rs.planner))
            /\ checker = Checker_new
            /\ result = "none"
            /\ last = NoOp(store)
            /\ nsucc = 0
            /\ caches = EmptyMap
            /\ hist = EmptyMap
            /\ steps = 0

(* One iteration of Worker::run's loop over the plan, the plan being any    *)
(* ordering permute yields: the next act is one of the available nodes; it  *)
(* is dispatched to the Actor of its client and the Checker runs.           *)
RunAct(action) ==
    /\ result = "none"
    /\ \E act \in {graph[action].value} :
       \E r \in {dispatch(store, actors[act.client_id], act)} :
       \E c \in {Checker_check(checker, r.store)} :
       \E rest \in {remaining(nodes, action)} :
           /\ store' = r.store
           /\ actors' = [actors EXCEPT ![act.client_id] = r.actor]
           /\ checker' = c.checker
           /\ nodes' = rest
           /\ result' = IF ~c.ret.ok THEN "Fail"
                        ELSE IF rest = <<>> THEN "Pass" ELSE "none"
           /\ last' = [op |-> act.op.tag, key |-> full(act.path), rev |-> None,
                       value |-> Some(act.client_id), ret |-> None, before |-> store]
    /\ UNCHANGED <<graph, scenario, nsucc, caches, hist, steps>>

NextRun == \E i \in 1..Len(available(nodes)) : RunAct(available(nodes)[i])

AllScenarios == 1..Len(Scenarios)

SpecRun == InitRun({ConfigDefault}, AllScenarios) /\ [][NextRun]_vars

(* Link-reachability: every present document has each of its (dir, name)    *)
(* links present as a Dir containing name.                                  *)
LinkReachable(s) ==
    \A k \in DOMAIN s.data :
        (is_doc(Path_new(k)) /\ is_some(s.data[k][2])) =>
            \A i \in 1..Len(links(Path_new(k))) :
                LET dir == links(Path_new(k))[i][1]
                    name == links(Path_new(k))[i][2]
                IN  /\ dir \in DOMAIN s.data
                    /\ is_some(s.data[dir][2])
                    /\ s.data[dir][2][1].tag = "Dir"
                    /\ name \in s.data[dir][2][1].entries

Present(s, key) == key \in DOMAIN s.data /\ is_some(s.data[key][2])

(* A tombstone: a record left by a successful remove. *)
Tombstoned(s, key) == key \in DOMAIN s.data /\ s.data[key][1] >= 1 /\ s.data[key][2] = None

NotCrashed == {id \in DOMAIN actors : ~actors[id].crashed}

(* C1: when A and B both update the same document (scenarios 'update/update *)
(* conflict' and its 'missing' variant), link-reachability holds after      *)
(* every act of every ordering, and the Checker never reports an error.     *)
UpdateUpdateLinkReachable ==
    scenario \in {1, 2} => (LinkReachable(store) /\ result # "Fail")

UpdateUpdateLinkReachableWitness ==
    /\ scenario = 2
    /\ last.op = "Put"
    /\ ~Present(last.before, PathY)
    /\ Present(store, PathY)

(* C2, as amended: when A and B both update /path/x, at the end of every    *)
(* ordering /path/x is present at rev 1 + n, n being the number of the two  *)
(* Actors that are not crashed (0, 1 or 2), and holds the value of the last *)
(* Put that succeeded (the baseline value if none did).                     *)
UpdateUpdateFinalState ==
    (scenario = 1 /\ result = "Pass") =>
        LET n == Cardinality(NotCrashed)
            mine == [id \in {"A", "B"} |-> IF id = "A" THEN <<"x", 2>> ELSE <<"x", 3>>]
        IN  /\ store.data[PathX][1] = 1 + n
            /\ n = 0 => store.data[PathX][2] = Some(Doc(<<"x", 1>>))
            /\ n = 1 => \A id \in NotCrashed : store.data[PathX][2] = Some(Doc(mine[id]))
            /\ n = 2 => /\ last.op = "Put"
                        /\ store.data[PathX][2] = Some(Doc(mine[unwrap(last.value)]))

UpdateUpdateFinalStateWitness ==
    /\ scenario = 1 /\ result = "Pass"
    /\ last.op = "Put"
    /\ actors[unwrap(last.value)].crashed
    /\ Cardinality(NotCrashed) = 1
    /\ store.data[PathX][1] = 2

(* C2, as stated: at the end of every ordering exactly one of the two       *)
(* updates persists, /path/x is at rev 2 and the other Actor is crashed.    *)
UpdateUpdateExactlyOne ==
    (scenario = 1 /\ result = "Pass") =>
        /\ store.data[PathX][1] = 2
        /\ Cardinality(NotCrashed) = 1
        /\ store.data[PathX][2] \in {Some(Doc(<<"x", 2>>)), Some(Doc(<<"x", 3>>))}

(* C3: when A updates a document and B removes the same document           *)
(* (scenarios 'update/delete conflict' and its 'missing' variant),          *)
(* link-reachability holds after every act of every ordering.               *)
UpdateDeleteLinkReachable ==
    scenario \in {3, 4} => (LinkReachable(store) /\ result # "Fail")

UpdateDeleteLinkReachableWitness ==
    /\ scenario = 3
    /\ last.op = "Unlink"
    /\ unwrap(last.value) = "B"
    /\ store.seq > last.before.seq
    /\ Tombstoned(store, PathX)

(* C4: when A removes one document while B creates or updates another in a  *)
(* sibling, parent, grandparent, child or grandchild directory (the         *)
(* 'delete, create ...' and 'delete, update ...' scenarios),                *)
(* link-reachability holds after every act of every ordering.               *)
DeleteOtherLinkReachable ==
    scenario \in 5..14 => (LinkReachable(store) /\ result # "Fail")

DeleteOtherLinkReachableWitness ==
    /\ scenario = 11
    /\ last.op = "Unlink"
    /\ unwrap(last.value) = "A"
    /\ last.key = PathDir
    /\ store.seq > last.before.seq
    /\ Present(store, PathY)
    /\ store.data[PathDir][2] = Some(Dir({<<"y">>}))

----------------------------------------------------------------------------
(* Any sequence of Store::write, Store::remove and Store::read calls on a   *)
(* fresh Store<String, char>, in strict or in lax-delete mode.              *)

MaxSeq == 3

StoreKeys == {<<"x">>, <<"y">>}
StoreValues == {"a", "b"}
StoreRevs == {None} \cup {Some(r) : r \in 0..MaxSeq}
StoreModes == {"Strict", "LaxDelete"}

InitStore ==
    /\ \E mode \in StoreModes : store = Store_new(Config_store(ConfigDefault, mode))
    /\ last = NoOp(store)
    /\ nsucc = 0
    /\ actors = EmptyMap
    /\ graph = <<>>
    /\ nodes = <<>>
    /\ checker = [seq |-> 0, errors |-> <<>>]
    /\ result = "none"
    /\ scenario = 0
    /\ caches = EmptyMap
    /\ hist = EmptyMap
    /\ steps = 0

StoreWrite(key, rev, value) ==
    /\ store.seq < MaxSeq
    /\ LET r == Store_write(store, key, rev, value)
       IN  /\ store' = r.store
           /\ last' = [op |-> "write", key |-> key, rev |-> rev,
                       value |-> Some(value), ret |-> r.ret, before |-> store]
           /\ nsucc' = IF is_some(r.ret) THEN nsucc + 1 ELSE nsucc
    /\ UNCHANGED <<actors, graph, nodes, checker, result, scenario, caches, hist, steps>>

StoreRemove(key, rev) ==
    /\ store.seq < MaxSeq
    /\ LET r == Store_remove(store, key, rev)
       IN  /\ store' = r.store
           /\ last' = [op |-> "remove", key |-> key, rev |-> rev,
                       value |-> None, ret |-> r.ret, before |-> store]
           /\ nsucc' = IF is_some(r.ret) THEN nsucc + 1 ELSE nsucc
    /\ UNCHANGED <<actors, graph, nodes, checker, result, scenario, caches, hist, steps>>

StoreRead(key) ==
    /\ last' = [op |-> "read", key |-> key, rev |-> None, value |-> None,
                ret |-> Store_read(store, key), before |-> store]
    /\ UNCHANGED <<store, nsucc, actors, graph, nodes, checker, result, scenario,
                    caches, hist, steps>>

NextStore ==
    \E key \in StoreKeys :
        \/ \E rev \in StoreRevs, value \in StoreValues : StoreWrite(key, rev, value)
        \/ \E rev \in StoreRevs : StoreRemove(key, rev)
        \/ StoreRead(key)

SpecStore == InitStore /\ [][NextStore]_vars

(* The rev of a key: 0 if the key was never written. *)
RevOf(s, key) == IF key \in DOMAIN s.data THEN s.data[key][1] ELSE 0

(* The value of a key: None if the key was never written or is tombstoned. *)
ValueOf(s, key) == IF key \in DOMAIN s.data THEN s.data[key][2] ELSE None

Mutated == last.op \in {"write", "remove"}
Succeeded == Mutated /\ is_some(last.ret)
Failed == Mutated /\ last.ret = None

(* C5: in strict mode Store.write(k, expected, v) succeeds iff the current  *)
(* rev of k (0 if never written) equals expected, none counting as 0; on    *)
(* success the record becomes (old rev + 1, v) and the new rev is returned; *)
(* a never-seen key written with expected none gets rev 1.                  *)
StrictWriteIsCas ==
    (last.op = "write" /\ is_strict(last.before)) =>
        LET old == RevOf(last.before, last.key)
            expected == IF last.rev = None THEN 0 ELSE last.rev[1]
        IN  /\ is_some(last.ret) <=> (old = expected)
            /\ is_some(last.ret) =>
                /\ last.ret = Some(old + 1)
                /\ store.data[last.key] = <<old + 1, last.value>>
            /\ (last.key \notin DOMAIN last.before.data /\ last.rev = None) =>
                last.ret = Some(1)

StrictWriteIsCasWitness ==
    /\ last.op = "write" /\ is_strict(last.before)
    /\ last.key \notin DOMAIN last.before.data
    /\ last.rev = None
    /\ last.ret = Some(1)

(* C6: store.seq equals the number of write and remove calls that           *)
(* succeeded: a success adds exactly one, a failure leaves seq unchanged.   *)
SeqCountsSuccesses ==
    /\ store.seq = nsucc
    /\ Succeeded => store.seq = last.before.seq + 1
    /\ Failed => store.seq = last.before.seq

SeqCountsSuccessesWitness ==
    /\ Failed
    /\ store.seq = 2
    /\ nsucc = 2

(* C7: in strict and in lax mode the rev of every key never decreases and   *)
(* never resets: a successful write or remove raises the rev of its key by  *)
(* exactly one (a tombstone and a re-creation included) and leaves the rev  *)
(* of every other key as it was.                                            *)
RevMonotonic ==
    /\ \A k \in StoreKeys : RevOf(store, k) >= RevOf(last.before, k)
    /\ Succeeded =>
        /\ RevOf(store, last.key) = RevOf(last.before, last.key) + 1
        /\ last.ret = Some(RevOf(store, last.key))
        /\ \A k \in StoreKeys \ {last.key} : RevOf(store, k) = RevOf(last.before, k)

RevMonotonicWitness ==
    /\ last.op = "write" /\ is_some(last.ret)
    /\ ~is_strict(store)
    /\ Tombstoned(last.before, last.key)
    /\ RevOf(last.before, last.key) = 2
    /\ RevOf(store, last.key) = 3

(* C8: a Store.write or Store.remove that fails leaves the store exactly    *)
(* as it was: seq, the rev and value of every key, read of every key and    *)
(* keys() are unchanged.  The code inserts (0, None) for a never-seen key   *)
(* before it checks the rev, so this is violated.                           *)
FailedMutationChangesNothing ==
    Failed =>
        /\ store.seq = last.before.seq
        /\ \A k \in StoreKeys :
            /\ RevOf(store, k) = RevOf(last.before, k)
            /\ ValueOf(store, k) = ValueOf(last.before, k)
            /\ Store_read(store, k) = Store_read(last.before, k)
        /\ Store_keys(store) = Store_keys(last.before)

(* C9, as amended: Store.read returns Some((rev, Some(v))) only for a       *)
(* present key; for a tombstoned key it returns none in lax-delete mode but *)
(* Some((rev, none)) in strict mode, which is not the none it returns for a *)
(* key the store holds no record of.                                        *)
ReadOfTombstone ==
    last.op = "read" =>
        /\ (is_some(last.ret) /\ is_some(last.ret[1][2])) =>
               is_some(ValueOf(store, last.key))
        /\ is_some(ValueOf(store, last.key)) =>
               last.ret = Some(<<RevOf(store, last.key), ValueOf(store, last.key)>>)
        /\ Tombstoned(store, last.key) =>
               IF is_strict(store)
               THEN last.ret = Some(<<RevOf(store, last.key), None>>)
               ELSE last.ret = None
        /\ last.key \notin DOMAIN store.data => last.ret = None

ReadOfTombstoneWitness ==
    /\ last.op = "read"
    /\ is_strict(store)
    /\ Tombstoned(store, last.key)
    /\ last.ret = Some(<<2, None>>)

(* C9, as stated: read of a tombstoned key returns none, as for a key that  *)
(* was never written.                                                       *)
ReadOfTombstoneIsNone ==
    (last.op = "read" /\ Tombstoned(store, last.key)) => last.ret = None

(* C10: in strict mode a write to a key tombstoned at rev t succeeds only   *)
(* with expected = t; with expected none or any other rev it fails and the  *)
(* tombstone stays in place at rev t.                                       *)
StrictTombstoneKeepsRev ==
    (last.op = "write" /\ is_strict(last.before) /\ Tombstoned(last.before, last.key)) =>
        LET t == last.before.data[last.key][1]
        IN  /\ is_some(last.ret) <=> last.rev = Some(t)
            /\ last.ret = None =>
                /\ store.data[last.key] = <<t, None>>
                /\ Store_get(store, last.key) = None
            /\ is_some(last.ret) => store.data[last.key] = <<t + 1, last.value>>

StrictTombstoneKeepsRevWitness ==
    /\ last.op = "write" /\ is_strict(last.before)
    /\ Tombstoned(last.before, last.key)
    /\ last.rev = None
    /\ last.ret = None
    /\ store.data[last.key] = <<2, None>>

(* C11: in lax-delete mode a tombstoned key reads as none, and a write or   *)
(* remove on a key whose record holds no value (tombstoned or never         *)
(* written) succeeds for every expected rev and raises the rev by one; a    *)
(* key holding a value is checked as in strict mode: the mutation succeeds  *)
(* iff the expected rev (none counting as 0) is the current rev.            *)
LaxSkipsRevCheck ==
    /\ (Mutated /\ ~is_strict(last.before)) =>
        LET old == RevOf(last.before, last.key)
            expected == unwrap_or(last.rev, 0)
        IN  /\ ValueOf(last.before, last.key) = None => last.ret = Some(old + 1)
            /\ is_some(ValueOf(last.before, last.key)) =>
                   (is_some(last.ret) <=> old = expected)
            /\ is_some(last.ret) =>
                /\ last.ret = Some(old + 1)
                /\ store.data[last.key] = <<old + 1, last.value>>
            /\ last.ret = None => store = last.before
    /\ (last.op = "read" /\ ~is_strict(store) /\ ValueOf(store, last.key) = None) =>
        last.ret = None

LaxSkipsRevCheckWitness ==
    /\ last.op = "write" /\ ~is_strict(last.before)
    /\ Tombstoned(last.before, last.key)
    /\ RevOf(last.before, last.key) = 2
    /\ last.rev = Some(1)
    /\ last.ret = Some(3)
    /\ store.data[last.key] = <<3, last.value>>

----------------------------------------------------------------------------
(* Any interleaving of Cache::read, Cache::write and Cache::remove calls by *)
(* two Caches over one fresh Store<String, char>, in strict or in           *)
(* lax-delete mode.                                                         *)

MaxOps == 4

CacheIds == {"A", "B"}

(* What hist keeps of an operation of a Cache on a key: the operation, its  *)
(* result, the rev of the key in the Store when it returned, whether the    *)
(* Cache `c` held a record of the key when it was called, and whether an    *)
(* operation of the Cache on the key before it (`h`) was a read.            *)
CacheOp(op, value, ret, s, key, c, h) ==
    [op |-> op, value |-> value, ret |-> ret, rev |-> RevOf(s, key),
     held |-> key \in DOMAIN c,
     read_before |-> h # <<>> /\ (h[1].op = "Cache.read" \/ h[1].read_before)]

InitCache ==
    /\ \E mode \in StoreModes : store = Store_new(Config_store(ConfigDefault, mode))
    /\ caches = [c \in CacheIds |-> Cache_new]
    /\ hist = [c \in CacheIds |-> [k \in StoreKeys |-> <<>>]]
    /\ steps = 0
    /\ last = NoOp(store)
    /\ nsucc = 0
    /\ actors = EmptyMap
    /\ graph = <<>>
    /\ nodes = <<>>
    /\ checker = [seq |-> 0, errors |-> <<>>]
    /\ result = "none"
    /\ scenario = 0

(* The operation `op` of cache c on key, with result r, becomes `last`; the *)
(* one that was the last of c on key is kept in hist.                       *)
CacheDone(c, op, key, value, r) ==
    /\ store' = r.store
    /\ caches' = [caches EXCEPT ![c] = r.cache]
    /\ last' = [op |-> op, cache |-> c, key |-> key, value |-> value, ret |-> r.ret,
                before |-> store, caches |-> caches, hist |-> hist[c][key]]
    /\ hist' = [hist EXCEPT ![c][key] =
                    <<CacheOp(op, value, r.ret, r.store, key, caches[c], @)>> \o SubSeq(@, 1, IF Len(@) < 2 THEN Len(@) ELSE 2)]
    /\ steps' = steps + 1
    /\ UNCHANGED <<nsucc, actors, graph, nodes, checker, result, scenario>>

CacheRead(c, key) ==
    /\ steps < MaxOps
    /\ \E r \in {Cache_read(store, caches[c], key)} :
           CacheDone(c, "Cache.read", key, None,
                     [store |-> store, cache |-> r.cache, ret |-> r.ret])

CacheWrite(c, key, value) ==
    /\ steps < MaxOps
    /\ \E r \in {Cache_write(store, caches[c], key, value)} :
           CacheDone(c, "Cache.write", key, Some(value), r)

CacheRemove(c, key) ==
    /\ steps < MaxOps
    /\ \E r \in {Cache_remove(store, caches[c], key)} :
           CacheDone(c, "Cache.remove", key, None, r)

NextCache ==
    \E c \in CacheIds, key \in StoreKeys :
        \/ CacheRead(c, key)
        \/ \E value \in StoreValues : CacheWrite(c, key, value)
        \/ CacheRemove(c, key)

SpecCache == InitCache /\ [][NextCache]_vars

CacheMutated == last.op \in {"Cache.write", "Cache.remove"}

(* The operation of last.cache on last.key that came n operations before    *)
(* `last` (n = 1: the one just before).                                     *)
HasPrev(n) == last.op \in {"Cache.read", "Cache.write", "Cache.remove"} /\ Len(last.hist) >= n
Prev(n) == last.hist[n]

(* C12: read-your-writes.  When the operation of a cache on a key before a  *)
(* Cache.read was a Cache.write of v that returned true, the read returns   *)
(* Some(v); when it was a Cache.remove that returned true, the read returns *)
(* none (whatever other caches did in between).                             *)
ReadYourWrites ==
    (last.op = "Cache.read" /\ HasPrev(1)) =>
        /\ (Prev(1).op = "Cache.write" /\ Prev(1).ret) => last.ret = Prev(1).value
        /\ (Prev(1).op = "Cache.remove" /\ Prev(1).ret) => last.ret = None

ReadYourWritesWitness ==
    /\ last.op = "Cache.read" /\ HasPrev(2)
    /\ Prev(1).op = "Cache.write" /\ Prev(1).ret
    /\ Prev(2).op = "Cache.write" /\ Prev(2).ret
    /\ Prev(2).value # Prev(1).value
    /\ last.ret = Prev(1).value

(* C13: Cache.read memoizes.  When the operation of a cache on a key before *)
(* a Cache.read was a Cache.read as well, both return the same result, an   *)
(* observation of absence included, whatever has been written to the Store  *)
(* since.                                                                   *)
ReadIsMemoized ==
    (last.op = "Cache.read" /\ HasPrev(1) /\ Prev(1).op = "Cache.read") =>
        /\ last.ret = Prev(1).ret
        /\ caches[last.cache] = last.caches[last.cache]

ReadIsMemoizedWitness ==
    /\ last.op = "Cache.read" /\ HasPrev(1) /\ Prev(1).op = "Cache.read"
    /\ last.ret = None
    /\ Present(store, last.key)
    /\ RevOf(store, last.key) > Prev(1).rev

(* C14: a failed Cache.write or Cache.remove leaves the Store as it was and *)
(* evicts the key from the cache; a Cache.read that follows it returns the  *)
(* Store's current value; and a Cache.write that follows that read, with no *)
(* mutation of the key in the Store since the read, succeeds.               *)
FailedMutationEvicts ==
    /\ (CacheMutated /\ ~last.ret) =>
        /\ store = last.before
        /\ last.key \notin DOMAIN caches[last.cache]
    /\ (last.op = "Cache.read" /\ HasPrev(1) /\ Prev(1).op # "Cache.read" /\ ~Prev(1).ret) =>
        last.ret = Store_get(store, last.key)
    /\ (last.op = "Cache.write" /\ HasPrev(2) /\ Prev(1).op = "Cache.read"
          /\ Prev(2).op # "Cache.read" /\ ~Prev(2).ret
          /\ RevOf(last.before, last.key) = Prev(1).rev) =>
        last.ret

FailedMutationEvictsWitness ==
    /\ last.op = "Cache.write" /\ HasPrev(2) /\ Prev(1).op = "Cache.read"
    /\ Prev(2).op = "Cache.write" /\ ~Prev(2).ret
    /\ last.key \in DOMAIN last.caches[last.cache]
    /\ RevOf(last.before, last.key) = Prev(1).rev
    /\ last.ret
    /\ RevOf(store, last.key) = 2

(* C15: CAS on commit, in strict mode.  A Cache.write or Cache.remove       *)
(* returns true iff the rev the cache recorded for the key (0 when it has   *)
(* no record) is the Store's rev of the key at that moment; once a mutation *)
(* of a key has succeeded, a mutation of that key by any other cache fails  *)
(* as things stand, so of two mutations based on the same rev only the      *)
(* first succeeds; and a cache with no record of a key that exists in the   *)
(* Store fails to write it.                                                 *)
CasOnCommit ==
    (CacheMutated /\ is_strict(store)) =>
        /\ last.ret <=> (unwrap_or(get_rev(last.caches[last.cache], last.key), 0)
                            = RevOf(last.before, last.key))
        /\ last.ret =>
            \A d \in CacheIds \ {last.cache} :
                /\ ~Cache_remove(store, caches[d], last.key).ret
                /\ \A v \in StoreValues : ~Cache_write(store, caches[d], last.key, v).ret
        /\ (last.key \notin DOMAIN last.caches[last.cache]
              /\ RevOf(last.before, last.key) >= 1) => ~last.ret

CasOnCommitWitness ==
    /\ last.op = "Cache.write" /\ is_strict(store)
    /\ ~last.ret
    /\ \E d \in CacheIds \ {last.cache} :
           /\ get_rev(last.caches[d], last.key) = Some(2)
           /\ get_rev(last.caches[last.cache], last.key) = Some(1)
    /\ RevOf(store, last.key) = 2

----------------------------------------------------------------------------
(* Any interleaving of acts dispatched to two Actors over the Store of the  *)
(* tests of actor.rs, the Actors linking by default or with skip_links.     *)

MaxActs == 4

x_path == <<"/", "p", "a", "t", "h", "/", "x", ".", "j", "s", "o", "n">>
y_path == <<"/", "p", "a", "t", "h", "/", "t", "o", "/", "y", ".", "j", "s", "o", "n">>
NewDir == <<"/", "n", "e", "w", "/">>

NamePath == <<"p", "a", "t", "h", "/">>
NameTo == <<"t", "o", "/">>
NameX == <<"x", ".", "j", "s", "o", "n">>
NameY == <<"y", ".", "j", "s", "o", "n">>

RECURSIVE write_all(_, _, _)
write_all(s, kvs, i) ==
    IF i > Len(kvs) THEN s
    ELSE write_all(Store_write(s, kvs[i][1], None, kvs[i][2]).store, kvs, i + 1)

make_store ==
    write_all(Store_new(ConfigDefault),
              << <<Root, Dir({NamePath})>>,
                 <<PathDir, Dir({NameTo, NameX})>>,
                 <<PathToDir, Dir({NameY})>>,
                 <<x_path, Doc(<<"a", "b">>)>>,
                 <<y_path, Doc(<<"c", "d", "e">>)>> >>,
              1)

ActorIds == {"A", "B"}

ActorConfigs == {ConfigDefault, Config_skip_links(ConfigDefault, TRUE)}

(* The acts dispatched to the Actor `id`. *)
ActorActs(id) ==
    { Act_new(id, Path_new(x_path), OpGet),
      Act_new(id, Path_new(x_path), OpPut(SetTo(<<"p", "q">>))),
      Act_new(id, Path_new(x_path), OpRm),
      Act_new(id, Path_new(y_path), OpRm),
      Act_new(id, Path_new(PathDir), OpList),
      Act_new(id, Path_new(PathDir), OpLink(NameTo)),
      Act_new(id, Path_new(NewDir), OpLink(NameX)),
      Act_new(id, Path_new(x_path), OpLink(NameTo)),
      Act_new(id, Path_new(PathToDir), OpUnlink(NameY)),
      Act_new(id, Path_new(PathDir), OpUnlink(NameTo)),
      Act_new(id, Path_new(Root), OpUnlink(NamePath)) }

InitActor ==
    /\ store = make_store
    /\ \E config \in ActorConfigs : actors = create_actors(config, ActorIds)
    /\ hist = [solo |-> <<>>, mixed |-> FALSE, rm |-> [id \in ActorIds |-> None]]
    /\ steps = 0
    /\ last = NoOp(store)
    /\ nsucc = 0
    /\ caches = EmptyMap
    /\ graph = <<>>
    /\ nodes = <<>>
    /\ checker = [seq |-> 0, errors |-> <<>>]
    /\ result = "none"
    /\ scenario = 0

(* What hist keeps of a successful Rm: the path removed and, for each of    *)
(* its links, the listing of the directory as the Actor saw it then.        *)
Removal(s, a, path) ==
    [path |-> path,
     seen |-> [i \in 1..Len(links(path)) |->
                  Actor_list(s, a, Path_new(links(path)[i][1])).ret]]

(* hist.solo holds the acts dispatched so far as long as all of them went  *)
(* to one Actor; hist.mixed tells that they did not.                        *)
Mixed(h, act) == h.mixed \/ (h.solo # <<>> /\ h.solo[1].client_id # act.client_id)

(* Actor::dispatch of one act by the Actor of its client. *)
ActorDispatch(act) ==
    /\ steps < MaxActs
    /\ \E r \in {dispatch(store, actors[act.client_id], act)} :
           /\ store' = r.store
           /\ actors' = [actors EXCEPT ![act.client_id] = r.actor]
           /\ last' = [op |-> act.op.tag, id |-> act.client_id, path |-> act.path,
                       key |-> full(act.path),
                       name |-> IF act.op.tag \in {"Link", "Unlink"} THEN act.op.name ELSE <<>>,
                       actor |-> actors[act.client_id], before |-> store,
                       hist |-> hist.rm[act.client_id]]
           /\ hist' = [solo |-> IF Mixed(hist, act) THEN <<>> ELSE Append(hist.solo, act),
                       mixed |-> Mixed(hist, act),
                       rm |-> IF act.op.tag = "Rm" /\ r.store.seq > store.seq
                              THEN [hist.rm EXCEPT ![act.client_id] =
                                       Some(Removal(r.store, r.actor, act.path))]
                              ELSE hist.rm]
    /\ steps' = steps + 1
    /\ UNCHANGED <<nsucc, caches, graph, nodes, checker, result, scenario>>

NextActor == \E id \in ActorIds : \E act \in ActorActs(id) : ActorDispatch(act)

SpecActor == InitActor /\ [][NextActor]_vars

Dispatched == last.op \in {"Get", "Put", "Rm", "List", "Link", "Unlink"}

(* The record of a key as an Actor sees it: the one its cache holds, or the *)
(* Store's when the cache holds none.                                       *)
View(s, a, key) == IF key \in DOMAIN a.cache THEN a.cache[key] ELSE Store_read(s, key)

(* The rev a mutation of key by the Actor would be based on. *)
ViewRev(s, a, key) == IF View(s, a, key) = None THEN 0 ELSE View(s, a, key)[1][1]

(* list(key).unwrap_or_else(BTreeSet::new): the entries of a directory as   *)
(* an Actor sees them; none for a crashed Actor, and none when it sees no   *)
(* record, a tombstone or a document.                                       *)
Listing(s, a, key) ==
    LET rec == View(s, a, key)
    IN  IF ~a.crashed /\ is_some(rec) /\ is_some(rec[1][2]) /\ rec[1][2][1].tag = "Dir"
        THEN rec[1][2][1].entries
        ELSE {}

(* An Actor's dispatch that always issues a Cache.write: a Put whose update *)
(* returns a value, a Link that is not skipped, an Unlink of a directory in *)
(* unlinks.                                                                 *)
IssuesWrite ==
    \/ last.op = "Put"
    \/ /\ last.op = "Link"
       /\ ~(last.actor.config.skip_links
             /\ last.name \in Listing(last.before, last.actor, last.key))
    \/ last.op = "Unlink" /\ last.key \in last.actor.unlinks

(* An Actor's dispatch that issues a Cache.remove: an Rm of a path the      *)
(* Actor sees a document at.                                                *)
IssuesRemove ==
    /\ last.op = "Rm"
    /\ is_some(View(last.before, last.actor, last.key))
    /\ is_some(View(last.before, last.actor, last.key)[1][2])
    /\ View(last.before, last.actor, last.key)[1][2][1].tag = "Doc"

(* C16: the failure latch.  A dispatch in which the Actor's Cache.write or  *)
(* Cache.remove fails leaves the Actor crashed, and only such a dispatch    *)
(* does; a crashed Actor stays crashed, every dispatch to it (Get, Put, Rm, *)
(* List, Link, Unlink) leaves the Store and the Actor as they were, and its *)
(* get and list return none.                                                *)
FailureLatch ==
    /\ (Dispatched /\ last.actor.crashed) =>
        /\ actors[last.id] = last.actor
        /\ store = last.before
    /\ (Dispatched /\ ~last.actor.crashed) =>
        /\ (IssuesWrite \/ IssuesRemove) =>
               IF ViewRev(last.before, last.actor, last.key) = RevOf(last.before, last.key)
               THEN ~actors[last.id].crashed /\ store.seq = last.before.seq + 1
               ELSE actors[last.id].crashed /\ store = last.before
        /\ ~(IssuesWrite \/ IssuesRemove) =>
               ~actors[last.id].crashed /\ store = last.before
    /\ \A id \in DOMAIN actors :
        actors[id].crashed =>
            \A key \in DOMAIN store.data :
                /\ Actor_get(store, actors[id], Path_new(key)).ret = None
                /\ Actor_list(store, actors[id], Path_new(key)).ret = None

FailureLatchWitness ==
    /\ last.op = "Link" /\ last.key = NewDir
    /\ last.actor.crashed
    /\ last.actor.cache # Cache_new
    /\ NewDir \notin DOMAIN store.data
    /\ store = last.before

(* The directory dir is one the removal h reached: an ancestor of the path  *)
(* removed such that every directory below it on the path listed exactly    *)
(* its child on the path when the Actor walked up from the document.        *)
Reached(h, dir) ==
    /\ is_some(h)
    /\ \E i \in 1..Len(links(h[1].path)) :
           /\ links(h[1].path)[i][1] = dir
           /\ \A j \in (i + 1)..Len(links(h[1].path)) :
                  h[1].seen[j] = Some({links(h[1].path)[j][2]})

(* The directory dir is an ancestor of the path removed by h that listed    *)
(* exactly its child on the path at the removal.                            *)
SoleChild(h, dir) ==
    /\ is_some(h)
    /\ \E i \in 1..Len(links(h[1].path)) :
           /\ links(h[1].path)[i][1] = dir
           /\ h[1].seen[i] = Some({links(h[1].path)[i][2]})

(* C17, as amended: an Actor that is not crashed applies Unlink(dir, name)  *)
(* iff dir was reached by its last successful Rm, that is, iff every        *)
(* directory below dir on the removed path listed only its child on that    *)
(* path; dir itself may have had other entries, and then loses name only.   *)
(* An Unlink that is applied writes Dir(listing - {name}); one that is not  *)
(* changes nothing.                                                         *)
UnlinkAfterRemoval ==
    (last.op = "Unlink" /\ ~last.actor.crashed) =>
        /\ (last.key \in last.actor.unlinks) <=> Reached(last.hist, last.key)
        /\ ~Reached(last.hist, last.key) =>
               store = last.before /\ actors[last.id] = last.actor
        /\ Reached(last.hist, last.key) =>
               \/ actors[last.id].crashed /\ store = last.before
               \/ /\ ~actors[last.id].crashed
                  /\ store.seq = last.before.seq + 1
                  /\ store.data[last.key] =
                         <<RevOf(last.before, last.key) + 1,
                           Some(Dir(Listing(last.before, last.actor, last.key) \ {last.name}))>>

UnlinkAfterRemovalWitness ==
    /\ last.op = "Unlink" /\ ~last.actor.crashed
    /\ last.key = PathDir /\ last.name = NameTo
    /\ is_some(last.hist)
    /\ full(last.hist[1].path) = y_path
    /\ last.hist[1].seen[2] = Some({NameTo, NameX})
    /\ store.data[PathDir] = <<2, Some(Dir({NameX}))>>

(* C17, as stated: an Unlink(dir, name) changes the Store only when dir     *)
(* listed exactly the removed child at the moment of the removal.           *)
UnlinkOnlySoleChild ==
    (last.op = "Unlink" /\ store # last.before) => SoleChild(last.hist, last.key)

(* C18: an Unlink(dir, name) of a directory that is not in the Actor's      *)
(* unlinks set leaves the Store and the Actor as they were; an Actor that   *)
(* has performed no successful Rm has an empty unlinks set, so every Unlink *)
(* dispatched to it leaves the rev and entries of every key unchanged.      *)
UnlinkNeedsUnlinks ==
    /\ (last.op = "Unlink" /\ last.key \notin last.actor.unlinks) =>
           store = last.before /\ actors[last.id] = last.actor
    /\ \A id \in DOMAIN actors : hist.rm[id] = None => actors[id].unlinks = {}
    /\ (last.op = "Unlink" /\ last.hist = None) =>
           \A key \in DOMAIN last.before.data : store.data[key] = last.before.data[key]

UnlinkNeedsUnlinksWitness ==
    /\ last.op = "Unlink" /\ ~last.actor.crashed
    /\ last.key = Root
    /\ last.actor.unlinks = {PathToDir, PathDir}
    /\ store = last.before
    /\ store.data[Root] = <<1, Some(Dir({NamePath}))>>

(* The acts of the test allows_empty_parent_directories_to_be_removed. *)
RemoveAndUnlinks ==
    << <<OpRm, y_path>>, <<OpUnlink(NameY), PathToDir>>,
       <<OpUnlink(NameTo), PathDir>>, <<OpUnlink(NamePath), Root>> >>

DidRemoveAndUnlinks ==
    /\ Len(hist.solo) = Len(RemoveAndUnlinks)
    /\ \A i \in 1..Len(hist.solo) :
           <<hist.solo[i].op, full(hist.solo[i].path)>> = RemoveAndUnlinks[i]

(* C19: from the Store of the tests (/ = {path/}, /path/ = {to/, x.json},   *)
(* /path/to/ = {y.json}, both documents at rev 1), after one Actor has done *)
(* Rm(/path/to/y.json), Unlink(/path/to/, y.json), Unlink(/path/, to/) and  *)
(* Unlink(/, path/): /path/to/y.json is tombstoned at rev 2, /path/to/ is   *)
(* an empty directory at rev 2, /path/ lists exactly x.json (at rev 2) and  *)
(* / still lists path/ at rev 1.                                            *)
RemoveAndUnlinkResult ==
    DidRemoveAndUnlinks =>
        /\ store.data[y_path] = <<2, None>>
        /\ store.data[PathToDir] = <<2, Some(Dir({}))>>
        /\ store.data[PathDir] = <<2, Some(Dir({NameX}))>>
        /\ store.data[Root] = <<1, Some(Dir({NamePath}))>>
        /\ store.data[x_path] = <<1, Some(Doc(<<"a", "b">>))>>

RemoveAndUnlinkResultWitness ==
    /\ DidRemoveAndUnlinks
    /\ last.op = "Unlink" /\ last.key = Root
    /\ store = last.before
    /\ Tombstoned(store, y_path)

(* C20: a Link(dir, name) dispatched to an Actor that is not crashed writes *)
(* Dir(listing + {name}) through its cache, listing being what the Actor    *)
(* sees in dir (empty when it sees no Dir there), unless skip_links is set  *)
(* and name is listed already, in which case it writes nothing.  The write  *)
(* raises the rev of dir by one, also when name was listed already; it      *)
(* fails, and crashes the Actor, when the rev the Actor saw is not the      *)
(* Store's.                                                                 *)
LinkWrites ==
    (last.op = "Link" /\ ~last.actor.crashed) =>
        LET listing == Listing(last.before, last.actor, last.key)
            rev == RevOf(last.before, last.key)
        IN  IF last.actor.config.skip_links /\ last.name \in listing
            THEN store = last.before /\ ~actors[last.id].crashed
            ELSE IF ViewRev(last.before, last.actor, last.key) = rev
            THEN /\ store.data[last.key] = <<rev + 1, Some(Dir(listing \cup {last.name}))>>
                 /\ store.seq = last.before.seq + 1
                 /\ ~actors[last.id].crashed
            ELSE store = last.before /\ actors[last.id].crashed

LinkWritesWitness ==
    /\ last.op = "Link" /\ ~last.actor.crashed
    /\ ~last.actor.config.skip_links
    /\ last.key = PathDir
    /\ last.name \in Listing(last.before, last.actor, last.key)
    /\ store.data[PathDir] = <<RevOf(last.before, PathDir) + 1, last.before.data[PathDir][2]>>

----------------------------------------------------------------------------
(* A Checker bound to one Store<Path, Db<char>>: any sequence of successful *)
(* writes and removes of documents and directories, in strict or in         *)
(* lax-delete mode, with Checker::check called at any point.                *)

MaxWrites == 3

DirA == <<"/", "a", "/">>
DocAX == <<"/", "a", "/", "x">>

CheckerKeys == {Root, DirA, DocAX, Y}
CheckerNames == {<<"a", "/">>, <<"x">>, <<"y">>}
CheckerEntries == {{}, {<<"a", "/">>}, {<<"x">>}, {<<"y">>}, {<<"a", "/">>, <<"y">>}}
CheckerValues == {Doc("v")} \cup {Dir(entries) : entries \in CheckerEntries}

(* The rev a client that has read the key passes to a write or remove. *)
ClientRev(s, key) ==
    IF key \in DOMAIN s.data /\ s.data[key][1] > 0 THEN Some(s.data[key][1]) ELSE None

InitChecker ==
    /\ \E mode \in StoreModes : store = Store_new(Config_store(ConfigDefault, mode))
    /\ checker = Checker_new
    /\ last = [op |-> "new"]
    /\ nsucc = 0
    /\ actors = EmptyMap
    /\ graph = <<>>
    /\ nodes = <<>>
    /\ result = "none"
    /\ scenario = 0
    /\ caches = EmptyMap
    /\ hist = EmptyMap
    /\ steps = 0

CheckerWrite(key, value) ==
    /\ store.seq < MaxWrites
    /\ store' = Store_write(store, key, ClientRev(store, key), value).store
    /\ last' = [op |-> "write"]
    /\ UNCHANGED <<checker, nsucc, actors, graph, nodes, result, scenario, caches,
                    hist, steps>>

CheckerRemove(key) ==
    /\ store.seq < MaxWrites
    /\ store' = Store_remove(store, key, ClientRev(store, key)).store
    /\ last' = [op |-> "remove"]
    /\ UNCHANGED <<checker, nsucc, actors, graph, nodes, result, scenario, caches,
                    hist, steps>>

CheckerCheck ==
    /\ \E r \in {Checker_check(checker, store)} :
           /\ checker' = r.checker
           /\ last' = [op |-> "check", ret |-> r.ret, checker |-> checker]
    /\ UNCHANGED <<store, nsucc, actors, graph, nodes, result, scenario, caches,
                    hist, steps>>

NextChecker ==
    \/ \E key \in CheckerKeys, value \in CheckerValues : CheckerWrite(key, value)
    \/ \E key \in CheckerKeys : CheckerRemove(key)
    \/ CheckerCheck

SpecChecker == InitChecker /\ [][NextChecker]_vars

(* The i-th link of the document key k holds in s: its dir is present as a  *)
(* Dir that contains its name.                                              *)
LinkHolds(s, k, i) ==
    LET dir == links(Path_new(k))[i][1]
        name == links(Path_new(k))[i][2]
    IN  /\ Present(s, dir)
        /\ s.data[dir][2][1].tag = "Dir"
        /\ name \in s.data[dir][2][1].entries

(* The (present document, link) pairs that fail in s. *)
FailingLinks(s) ==
    {p \in UNION {{<<k, i>> : i \in 1..Len(links(Path_new(k)))} : k \in DOMAIN s.data} :
        /\ is_doc(Path_new(p[1]))
        /\ Present(s, p[1])
        /\ ~LinkHolds(s, p[1], p[2])}

(* The message for a failing pair: 'is missing' when the dir is absent,     *)
(* tombstoned or holds a Doc, 'does not include name' when it is a Dir.     *)
ExpectedError(s, k, i) ==
    LET dir == links(Path_new(k))[i][1]
        name == links(Path_new(k))[i][2]
    IN  IF Present(s, dir) /\ s.data[dir][2][1].tag = "Dir"
        THEN MsgNotIncluded(dir, name, k)
        ELSE MsgMissing(dir, k)

(* C21: Checker::check returns Ok exactly when the Store is link-reachable, *)
(* on every call, those that take the seq-unchanged shortcut included;      *)
(* otherwise it returns one error per failing (present document, link)      *)
(* pair, 'is missing' or 'does not include name' as the dir is not a Dir or *)
(* lacks the name; tombstoned documents and directory keys are not checked. *)
CheckIsLinkReachable ==
    last.op = "check" =>
        /\ last.ret.ok <=> LinkReachable(store)
        /\ Len(last.ret.errors) = Cardinality(FailingLinks(store))
        /\ {last.ret.errors[j] : j \in 1..Len(last.ret.errors)} =
               {ExpectedError(store, p[1], p[2]) : p \in FailingLinks(store)}

(* A check that takes the shortcut on a Store holding a linked document. *)
CheckIsLinkReachableWitness ==
    /\ last.op = "check"
    /\ last.checker.seq = store.seq
    /\ last.ret.ok
    /\ Present(store, Y)
    /\ Present(store, Root)

(* A check that reports both kinds of error. *)
CheckReportsBothWitness ==
    /\ last.op = "check"
    /\ ~last.ret.ok
    /\ \E k \in CheckerKeys, d \in CheckerKeys :
           MsgMissing(d, k) \in {last.ret.errors[j] : j \in 1..Len(last.ret.errors)}
    /\ \E k \in CheckerKeys, d \in CheckerKeys, n \in CheckerNames :
           MsgNotIncluded(d, n, k) \in {last.ret.errors[j] : j \in 1..Len(last.ret.errors)}

----------------------------------------------------------------------------
(* A Graph<usize> built by any sequence of Graph::add calls whose deps are  *)
(* ids that add has returned, with Graph::orderings collected at any point. *)

MaxNodes == 5

(* A set of ids as the slice passed to add, ascending. *)
RECURSIVE IdSeq(_)
IdSeq(S) ==
    IF S = {} THEN <<>>
    ELSE LET m == CHOOSE x \in S : \A y \in S : x <= y
         IN  <<m>> \o IdSeq(S \ {m})

InitGraph ==
    /\ graph = Graph_new
    /\ last = [op |-> "new"]
    /\ store = Store_new(ConfigDefault)
    /\ checker = Checker_new
    /\ nsucc = 0
    /\ actors = EmptyMap
    /\ nodes = <<>>
    /\ result = "none"
    /\ scenario = 0
    /\ caches = EmptyMap
    /\ hist = EmptyMap
    /\ steps = 0

GraphAdd(deps) ==
    /\ Len(graph) < MaxNodes
    /\ \E r \in {Graph_add(graph, IdSeq(deps), Len(graph))} :
           /\ graph' = r.graph
           /\ last' = [op |-> "add", id |-> r.id]
    /\ UNCHANGED <<store, checker, nsucc, actors, nodes, result, scenario, caches,
                    hist, steps>>

GraphOrderings ==
    /\ last' = [op |-> "orderings", ret |-> Graph_orderings(graph)]
    /\ UNCHANGED <<graph, store, checker, nsucc, actors, nodes, result, scenario,
                    caches, hist, steps>>

NextGraph ==
    \/ \E deps \in SUBSET (1..Len(graph)) : GraphAdd(deps)
    \/ GraphOrderings

SpecGraph == InitGraph /\ [][NextGraph]_vars

(* All the sequences that hold every element of S exactly once. *)
RECURSIVE Perms(_)
Perms(S) ==
    IF S = {} THEN {<<>>}
    ELSE UNION {{<<x>> \o p : p \in Perms(S \ {x})} : x \in S}

(* The position of node x in an ordering that holds it. *)
Pos(order, x) == CHOOSE i \in 1..Len(order) : order[i] = x

DepsOf(g, v) == {g[v].deps[i] : i \in 1..Len(g[v].deps)}

(* The linear extensions of g's dependency relation: the orderings of all   *)
(* its nodes in which every dependency of a node comes before the node.     *)
PermsOf == [n \in 0..MaxNodes |-> Perms(1..n)]

LinearExtensions(g) ==
    {p \in PermsOf[Len(g)] :
        \A v \in 1..Len(g) : \A u \in DepsOf(g, v) : Pos(p, u) < Pos(p, v)}

(* C22: for a graph built with add, orderings yields exactly the linear     *)
(* extensions of its dependency relation: each ordering holds every node    *)
(* once, every linear extension is yielded, none twice; the empty graph     *)
(* yields one empty ordering.                                               *)
OrderingsAreLinearExtensions ==
    last.op = "orderings" =>
        /\ {last.ret[j] : j \in 1..Len(last.ret)} = LinearExtensions(graph)
        /\ \A j, k \in 1..Len(last.ret) : last.ret[j] = last.ret[k] => j = k
        /\ \A j \in 1..Len(last.ret) : \A v \in 1..Len(graph) :
               Cardinality({i \in 1..Len(last.ret[j]) : last.ret[j][i] = v}) = 1
        /\ graph = Graph_new => last.ret = << <<>> >>

(* The orderings of a graph of MaxNodes nodes, some of them dependent, that *)
(* has several linear extensions.                                           *)
OrderingsAreLinearExtensionsWitness ==
    /\ last.op = "orderings"
    /\ Len(graph) = MaxNodes
    /\ Len(last.ret) > 2
    /\ Len(last.ret) < 24
    /\ \E v \in 1..Len(graph) : Cardinality(DepsOf(graph, v)) = 2

(* The direct and transitive dependencies of v; deps are earlier nodes. *)
RECURSIVE Ancestors(_, _)
Ancestors(g, v) == UNION {{u} \cup Ancestors(g, u) : u \in DepsOf(g, v)}

(* C23: in every ordering every direct or transitive dependency of a node   *)
(* comes before the node, and two nodes with no dependency path between     *)
(* them occur in both relative orders among the orderings.                  *)
DepsBeforeDependents ==
    last.op = "orderings" =>
        /\ \A j \in 1..Len(last.ret) : \A v \in 1..Len(graph) :
               \A u \in Ancestors(graph, v) : Pos(last.ret[j], u) < Pos(last.ret[j], v)
        /\ \A u, v \in 1..Len(graph) :
               (u # v /\ u \notin Ancestors(graph, v) /\ v \notin Ancestors(graph, u)) =>
                   \E j \in 1..Len(last.ret) : Pos(last.ret[j], u) < Pos(last.ret[j], v)

(* The orderings of a graph with a chain 1 <- 2 <- 3 and a node 4           *)
(* independent of node 3.                                                   *)
DepsBeforeDependentsWitness ==
    /\ last.op = "orderings"
    /\ Len(graph) >= 4
    /\ 1 \in Ancestors(graph, 3) /\ 1 \notin DepsOf(graph, 3)
    /\ 3 \notin Ancestors(graph, 4)
    /\ Len(last.ret) > 1

(* Lexicographic order on orderings of the same nodes. *)
LexLt(p, q) ==
    \E i \in 1..Len(p) :
        /\ i <= Len(q)
        /\ p[i] < q[i]
        /\ \A k \in 1..(i - 1) : p[k] = q[k]

(* C24: the enumeration is a function of the graph: the orderings come in   *)
(* ascending lexicographic order of node ids; two nodes without deps yield  *)
(* [a, b], [b, a]; the diamond a -> {b, c} -> d yields [a, b, c, d],        *)
(* [a, c, b, d].                                                            *)
OrderingsAreLexicographic ==
    last.op = "orderings" =>
        /\ last.ret = permute(Graph_nodes(graph))
        /\ \A j \in 1..(Len(last.ret) - 1) : LexLt(last.ret[j], last.ret[j + 1])
        /\ (Len(graph) = 2 /\ DepsOf(graph, 1) = {} /\ DepsOf(graph, 2) = {}) =>
               last.ret = << <<1, 2>>, <<2, 1>> >>
        /\ (/\ Len(graph) = 4
            /\ DepsOf(graph, 1) = {}
            /\ DepsOf(graph, 2) = {1}
            /\ DepsOf(graph, 3) = {1}
            /\ DepsOf(graph, 4) = {2, 3}) =>
               last.ret = << <<1, 2, 3, 4>>, <<1, 3, 2, 4>> >>

(* The orderings of the diamond. *)
OrderingsAreLexicographicWitness ==
    /\ last.op = "orderings"
    /\ Len(graph) = 4
    /\ DepsOf(graph, 1) = {}
    /\ DepsOf(graph, 2) = {1}
    /\ DepsOf(graph, 3) = {1}
    /\ DepsOf(graph, 4) = {2, 3}
    /\ Len(last.ret) = 2

----------------------------------------------------------------------------
(* A Planner with the default Config: any sequence of update and remove     *)
(* calls by two clients on keys with zero to three ancestor directories,    *)
(* with the orderings of the graph collected while the graph is small.      *)

MaxCalls == 2
MaxPlanNodes == 8

PlannerIds == {"A", "B"}
PlannerKeys == {Root, X, PathX, PathToX}

(* The Planner the calls so far have left: its graph and client ids. *)
PlannerNow ==
    [graph |-> graph, config |-> ConfigDefault,
     clients |-> {hist[i].client : i \in 1..Len(hist)}]

InitPlanner ==
    /\ graph = Planner_new(ConfigDefault).graph
    /\ hist = <<>>
    /\ last = [op |-> "new"]
    /\ store = Store_new(ConfigDefault)
    /\ checker = Checker_new
    /\ nsucc = 0
    /\ actors = EmptyMap
    /\ nodes = <<>>
    /\ result = "none"
    /\ scenario = 0
    /\ caches = EmptyMap
    /\ steps = 0

PlannerCall(c) ==
    /\ Len(hist) < MaxCalls
    /\ \E pl \in {plan_call(PlannerNow, c)} :
           /\ graph' = pl.graph
           /\ hist' = Append(hist, [client |-> c.client, kind |-> c.kind, key |-> c.key,
                                     lo |-> Len(graph) + 1, hi |-> Len(pl.graph)])
           /\ last' = [op |-> c.kind, client |-> c.client, key |-> c.key,
                       before |-> graph]
    /\ UNCHANGED <<store, checker, nsucc, actors, nodes, result, scenario, caches,
                    steps>>

PlannerUpdate(client, key) == PlannerCall(Update(client, key, Increment))

PlannerRemove(client, key) == PlannerCall(Remove(client, key))

PlannerOrderings ==
    /\ Len(graph) <= MaxPlanNodes
    /\ last' = [op |-> "orderings", ret |-> Graph_orderings(graph)]
    /\ UNCHANGED <<graph, hist, store, checker, nsucc, actors, nodes, result,
                    scenario, caches, steps>>

NextPlanner ==
    \/ \E client \in PlannerIds, key \in PlannerKeys : PlannerUpdate(client, key)
    \/ \E client \in PlannerIds, key \in PlannerKeys : PlannerRemove(client, key)
    \/ PlannerOrderings

SpecPlanner == InitPlanner /\ [][NextPlanner]_vars

(* The nodes of lo..hi of g whose act has the tag. *)
Acts(g, lo, hi, tag) == {n \in lo..hi : g[n].value.op.tag = tag}

(* The reads a call appended: a List for each ancestor directory of the key, *)
(* and a Get of the key, all without deps.                                  *)
ReadsOf(g, lo, hi, key) ==
    LET path == Path_new(key)
        d == Len(links(path))
    IN  /\ Cardinality(Acts(g, lo, hi, "List")) = d
        /\ {g[n].value.path : n \in Acts(g, lo, hi, "List")} =
               {Path_new(dirs(path)[i]) : i \in 1..d}
        /\ Cardinality(Acts(g, lo, hi, "Get")) = 1
        /\ \A n \in Acts(g, lo, hi, "Get") : g[n].value.path = path
        /\ \A n \in Acts(g, lo, hi, "List") \cup Acts(g, lo, hi, "Get") : g[n].deps = <<>>

(* The node of lo..hi with the tag that acts on link number i of the path. *)
LinkNode(g, lo, hi, tag, path, i) ==
    {n \in Acts(g, lo, hi, tag) :
        /\ g[n].value.path = Path_new(links(path)[i][1])
        /\ g[n].value.op.name = links(path)[i][2]}

(* C25: under the default configuration update(key, f), for a key with d    *)
(* ancestor directories, appends 2d+2 acts of the client: d Lists and a Get *)
(* without deps, d Links each depending on all the d+1 reads, and a Put     *)
(* depending on all the Links.                                              *)
UpdateAppends ==
    last.op = "update" =>
        LET path == Path_new(last.key)
            d == Len(links(path))
            lo == Len(last.before) + 1
            hi == Len(graph)
            reads == Acts(graph, lo, hi, "List") \cup Acts(graph, lo, hi, "Get")
        IN  /\ SubSeq(graph, 1, lo - 1) = last.before
            /\ hi - lo + 1 = 2 * d + 2
            /\ \A n \in lo..hi : graph[n].id = n /\ graph[n].value.client_id = last.client
            /\ ReadsOf(graph, lo, hi, last.key)
            /\ Cardinality(Acts(graph, lo, hi, "Link")) = d
            /\ \A i \in 1..d : Cardinality(LinkNode(graph, lo, hi, "Link", path, i)) = 1
            /\ \A n \in Acts(graph, lo, hi, "Link") : DepsOf(graph, n) = reads
            /\ Cardinality(Acts(graph, lo, hi, "Put")) = 1
            /\ \A n \in Acts(graph, lo, hi, "Put") :
                   /\ graph[n].value.path = path
                   /\ DepsOf(graph, n) = Acts(graph, lo, hi, "Link")

(* An update of a key with three ancestor directories, after another call. *)
UpdateAppendsWitness ==
    /\ last.op = "update"
    /\ last.key = PathToX
    /\ last.before # <<>>
    /\ Len(graph) = Len(last.before) + 8

(* C26: under the default configuration remove(key) appends the reads       *)
(* without deps, one Rm depending on all the reads, and one Unlink per link *)
(* in a single chain from the deepest link to the root, the first depending *)
(* on the Rm and each next one on the previous; so in every ordering the    *)
(* Rm of a remove comes before all its Unlinks, which run from the deepest  *)
(* to the shallowest.                                                       *)
RemoveAppends ==
    /\ last.op = "remove" =>
        LET path == Path_new(last.key)
            d == Len(links(path))
            lo == Len(last.before) + 1
            hi == Len(graph)
            reads == Acts(graph, lo, hi, "List") \cup Acts(graph, lo, hi, "Get")
        IN  /\ SubSeq(graph, 1, lo - 1) = last.before
            /\ hi - lo + 1 = 2 * d + 2
            /\ \A n \in lo..hi : graph[n].id = n /\ graph[n].value.client_id = last.client
            /\ ReadsOf(graph, lo, hi, last.key)
            /\ Cardinality(Acts(graph, lo, hi, "Rm")) = 1
            /\ \A n \in Acts(graph, lo, hi, "Rm") :
                   /\ graph[n].value.path = path
                   /\ DepsOf(graph, n) = reads
            /\ Cardinality(Acts(graph, lo, hi, "Unlink")) = d
            /\ \A i \in 1..d : Cardinality(LinkNode(graph, lo, hi, "Unlink", path, i)) = 1
            /\ \A i \in 1..d : \A n \in LinkNode(graph, lo, hi, "Unlink", path, i) :
                   /\ Len(graph[n].deps) = 1
                   /\ DepsOf(graph, n) =
                          IF i = d THEN Acts(graph, lo, hi, "Rm")
                          ELSE LinkNode(graph, lo, hi, "Unlink", path, i + 1)
    /\ last.op = "orderings" =>
        \A c \in 1..Len(hist) : hist[c].kind = "remove" =>
            \A j \in 1..Len(last.ret) :
                LET order == last.ret[j]
                    path == Path_new(hist[c].key)
                    unlink(i) == CHOOSE n \in LinkNode(graph, hist[c].lo, hist[c].hi,
                                                        "Unlink", path, i) : TRUE
                IN  /\ \A rm \in Acts(graph, hist[c].lo, hist[c].hi, "Rm") :
                        \A i \in 1..Len(links(path)) : Pos(order, rm) < Pos(order, unlink(i))
                    /\ \A i \in 1..(Len(links(path)) - 1) :
                           Pos(order, unlink(i + 1)) < Pos(order, unlink(i))

(* A remove of a key with three ancestor directories, after another call. *)
RemoveAppendsWitness ==
    /\ last.op = "remove"
    /\ last.key = PathToX
    /\ last.before # <<>>
    /\ Len(graph) = Len(last.before) + 8

(* The orderings of a graph that holds a remove with two Unlinks and        *)
(* another client's call.                                                   *)
RemoveOrderingsWitness ==
    /\ last.op = "orderings"
    /\ Len(last.ret) > 1
    /\ Len(hist) = 2
    /\ hist[1].kind = "remove" /\ hist[1].key = PathX
    /\ hist[2].client # hist[1].client

----------------------------------------------------------------------------
(* Path::new on any string of up to MaxLen characters. *)

MaxLen == 5

PathChars == {SEP, "a", "b"}

(* The strings of exactly n characters. *)
RECURSIVE Strings(_)
Strings(n) ==
    IF n = 0 THEN {<<>>}
    ELSE {<<c>> \o s : c \in PathChars, s \in Strings(n - 1)}

InitPath ==
    /\ last = [op |-> "new"]
    /\ store = Store_new(ConfigDefault)
    /\ checker = Checker_new
    /\ graph = <<>>
    /\ nsucc = 0
    /\ actors = EmptyMap
    /\ nodes = <<>>
    /\ result = "none"
    /\ scenario = 0
    /\ caches = EmptyMap
    /\ hist = EmptyMap
    /\ steps = 0

PathNew(name) ==
    /\ last' = [op |-> "path", path |-> Path_new(name)]
    /\ UNCHANGED <<store, checker, graph, nsucc, actors, nodes, result, scenario,
                    caches, hist, steps>>

NextPath == \E n \in 0..MaxLen : \E name \in Strings(n) : PathNew(name)

SpecPath == InitPath /\ [][NextPath]_vars

(* C28: for a key that begins with '/', links() is the chain from the root: *)
(* the first dir is '/', each next dir is the previous dir followed by the  *)
(* previous name, the last dir followed by the last name is the key, every  *)
(* name but possibly the last ends with '/', and dirs() is the dirs of      *)
(* links(); the root '/' has no links.                                      *)
LinksAreChainFromRoot ==
    (last.op = "path" /\ full(last.path) # <<>> /\ Head(full(last.path)) = SEP) =>
        LET key == full(last.path)
            ls == links(last.path)
            n == Len(ls)
        IN  /\ key = <<SEP>> <=> ls = <<>>
            /\ n > 0 => ls[1][1] = <<SEP>> /\ ls[n][1] \o ls[n][2] = key
            /\ \A i \in 1..(n - 1) :
                   /\ ls[i + 1][1] = ls[i][1] \o ls[i][2]
                   /\ ls[i][2] # <<>> /\ ls[i][2][Len(ls[i][2])] = SEP
            /\ dirs(last.path) = [i \in 1..n |-> ls[i][1]]

(* A document two directories below the root. *)
LinksAreChainFromRootWitness ==
    /\ last.op = "path"
    /\ full(last.path) = <<"/", "a", "/", "b">>
    /\ Len(links(last.path)) = 2
    /\ is_doc(last.path)

----------------------------------------------------------------------------
(* Link number j of the path of the last act is one whose directory the     *)
(* Actor saw listing exactly the name of the link.                          *)
ListsOnlyChild(j) ==
    Listing(last.before, last.actor, links(last.path)[j][1]) = {links(last.path)[j][2]}

(* C29: a successful Rm(path) replaces unlinks by the directories visited   *)
(* walking the links of path from the deepest upwards, up to and including  *)
(* the first whose listing as the Actor sees it is not exactly the name of  *)
(* the link: the parent always, a higher directory exactly when every       *)
(* directory below it listed its single child on the path.                  *)
RmSetsUnlinks ==
    (last.op = "Rm" /\ store.seq > last.before.seq) =>
        LET ls == links(last.path)
            d == Len(ls)
        IN  /\ actors[last.id].unlinks =
                   {ls[i][1] : i \in {k \in 1..d : \A j \in (k + 1)..d : ListsOnlyChild(j)}}
            /\ d > 0 => ls[d][1] \in actors[last.id].unlinks

(* A successful Rm by an Actor whose unlinks held a directory that the new  *)
(* walk does not visit.                                                     *)
RmSetsUnlinksWitness ==
    /\ last.op = "Rm"
    /\ store.seq > last.before.seq
    /\ PathToDir \in last.actor.unlinks
    /\ actors[last.id].unlinks = {PathDir}

(* The remove an Rm issues fails its compare-and-swap: the rev the Actor    *)
(* holds for the document is not the Store's.                               *)
RemoveFailsCas ==
    /\ IssuesRemove
    /\ ~last.actor.crashed
    /\ is_strict(last.before) \/ is_some(ValueOf(last.before, last.key))
    /\ RevOf(last.before, last.key) # ViewRev(last.before, last.actor, last.key)

(* C30: an Rm that does not succeed changes nothing: when the Actor does    *)
(* not see a present document at the path, the Store is not mutated, the    *)
(* Actor does not crash and unlinks is unchanged; when it sees one and the  *)
(* remove fails the compare-and-swap, the Store is unchanged, the Actor is  *)
(* crashed and unlinks is as it was.                                        *)
FailedRmChangesNothing ==
    last.op = "Rm" =>
        /\ (~IssuesRemove \/ last.actor.crashed) =>
               /\ store = last.before
               /\ actors[last.id].crashed = last.actor.crashed
               /\ actors[last.id].unlinks = last.actor.unlinks
        /\ RemoveFailsCas =>
               /\ store = last.before
               /\ actors[last.id].crashed
               /\ actors[last.id].unlinks = last.actor.unlinks
        /\ (IssuesRemove /\ ~last.actor.crashed /\ ~RemoveFailsCas) =>
               store.seq > last.before.seq

(* An Rm whose remove fails, by an Actor whose unlinks was not empty. *)
FailedRmChangesNothingWitness ==
    /\ last.op = "Rm"
    /\ RemoveFailsCas
    /\ last.actor.unlinks # {}
    /\ actors[last.id].crashed

(* An Rm of a path the Actor sees no document at, by an Actor whose unlinks *)
(* was not empty.                                                           *)
RmOfAbsentWitness ==
    /\ last.op = "Rm"
    /\ ~IssuesRemove
    /\ ~last.actor.crashed
    /\ last.actor.unlinks # {}

----------------------------------------------------------------------------
(* The operation of last.cache on last.key n operations before `last` is   *)
(* the cache's first read of the key, and those after it are reads.        *)
FirstReadAt(n) ==
    /\ HasPrev(n)
    /\ Prev(n).op = "Cache.read"
    /\ ~Prev(n).read_before
    /\ \A m \in 1..(n - 1) : Prev(m).op = "Cache.read"

(* A write by a cache over a strict Store whose first read of the key was  *)
(* taken while the key was a tombstone, the key not having been mutated    *)
(* since: its rev is the one it had at the read.                           *)
ReadTombstoneThenWrite ==
    /\ last.op = "Cache.write"
    /\ is_strict(last.before)
    /\ Tombstoned(last.before, last.key)
    /\ \E n \in 1..Len(last.hist) :
           FirstReadAt(n) /\ RevOf(last.before, last.key) = Prev(n).rev

(* The first read of last.key by last.cache. *)
FirstRead == Prev(CHOOSE n \in 1..Len(last.hist) : FirstReadAt(n))

(* C31: the statement that, in strict mode, when the first read of a key   *)
(* by a cache happens while the key is a tombstone at rev r, a write by    *)
(* that cache with no mutation of the key in between returns true and      *)
(* leaves the key present at rev r + 1.                                    *)
FirstReadOfTombstoneAllowsWrite ==
    ReadTombstoneThenWrite =>
        /\ last.ret = TRUE
        /\ Present(store, last.key)
        /\ RevOf(store, last.key) = FirstRead.rev + 1

(* C31, as the code has it: the write returns true and leaves the key      *)
(* present at rev r + 1 when the cache held no record of the key at that   *)
(* read, which then fetched the tombstone and its rev from the Store; when *)
(* the cache held a record, left by its own earlier successful write or    *)
(* remove, the read was served from it and the write returns false and     *)
(* leaves the Store unchanged.                                             *)
TombstoneCanBeRecreated ==
    ReadTombstoneThenWrite =>
        IF ~FirstRead.held
        THEN /\ last.ret = TRUE
             /\ Present(store, last.key)
             /\ ValueOf(store, last.key) = last.value
             /\ RevOf(store, last.key) = FirstRead.rev + 1
        ELSE /\ last.ret = FALSE
             /\ store = last.before

(* A tombstone at rev 2 that the cache fetched at its first read of the    *)
(* key, re-created at rev 3.                                               *)
TombstoneCanBeRecreatedWitness ==
    /\ ReadTombstoneThenWrite
    /\ ~FirstRead.held
    /\ last.ret = TRUE
    /\ RevOf(store, last.key) = 3

(* C32: the statement that, in strict mode, a write by a cache whose       *)
(* previous operation on the key was its own successful remove, with no    *)
(* mutation of the key in between, returns true.                           *)
RemoveThenWrite ==
    /\ last.op = "Cache.write"
    /\ is_strict(last.before)
    /\ HasPrev(1)
    /\ Prev(1).op = "Cache.remove"
    /\ Prev(1).ret = TRUE
    /\ RevOf(last.before, last.key) = Prev(1).rev

WriteAfterOwnRemoveSucceeds == RemoveThenWrite => last.ret = TRUE

(* C32, as the code has it: a successful remove leaves the cache with no   *)
(* rev for the key, so in strict mode the cache's next write of the key,   *)
(* with no mutation of the key in between, is attempted with no rev; it    *)
(* returns false, changes nothing in the Store and evicts the entry.       *)
WriteAfterOwnRemoveFails ==
    RemoveThenWrite =>
        /\ get_rev(last.caches[last.cache], last.key) = None
        /\ last.ret = FALSE
        /\ store = last.before
        /\ last.key \notin DOMAIN caches[last.cache]

WriteAfterOwnRemoveFailsWitness ==
    /\ RemoveThenWrite
    /\ last.ret = FALSE
    /\ Len(last.hist) >= 2
    /\ Prev(2).op = "Cache.write"
    /\ Prev(2).ret = TRUE

(* C33: over a strict Store, a rev recorded by a cache for a key is at     *)
(* most the Store's rev of the key, and when the two are equal the cached  *)
(* value or tombstone is the Store's.                                      *)
CachedRecords ==
    {<<c, k>> \in CacheIds \X StoreKeys : get_rev(caches[c], k) # None}

CachedRevIsNotAhead ==
    is_strict(store) =>
        \A e \in CachedRecords :
            LET rec == unwrap(caches[e[1]][e[2]])
            IN  /\ rec[1] <= RevOf(store, e[2])
                /\ rec[1] = RevOf(store, e[2]) => rec[2] = ValueOf(store, e[2])

CachedRevIsNotAheadWitness ==
    /\ is_strict(store)
    /\ \E k \in StoreKeys :
          /\ get_rev(caches["A"], k) # None
          /\ get_rev(caches["B"], k) # None
          /\ unwrap(caches["A"][k])[1] < RevOf(store, k)
          /\ unwrap(caches["B"][k])[1] = RevOf(store, k)
          /\ unwrap(caches["B"][k])[2] = ValueOf(store, k)

----------------------------------------------------------------------------
(* The conflict scenarios under the default configuration and under each   *)
(* one that differs from it in one option.                                 *)
Config_update(config, mode) == [config EXCEPT !.update = mode]
Config_remove(config, mode) == [config EXCEPT !.remove = mode]

SkipLinks == Config_skip_links(ConfigDefault, TRUE)
GetBeforePut == Config_update(ConfigDefault, "GetBeforePut")
UnlinkParallel == Config_remove(ConfigDefault, "UnlinkParallel")
LaxDelete == Config_store(ConfigDefault, "LaxDelete")

(* The configs main registers with runner.configs that config.rs can       *)
(* build; Config::new().store(Cas::Strict) is the default.                 *)
MainConfigs == {GetBeforePut, UnlinkParallel, SkipLinks, Config_store(ConfigDefault, "Strict")}

(* Those, and the default with config.rs's Cas::LaxDelete, which main      *)
(* does not register.                                                      *)
VariantConfigs == MainConfigs \cup {LaxDelete}

ScenarioNamed(name) == CHOOSE n \in AllScenarios : Scenarios[n].name = name
UpdateDeleteConflict == ScenarioNamed("update/delete conflict")
DeleteCreateInParent == ScenarioNamed("delete, create in parent")

SpecVariants ==
    InitRun(VariantConfigs, {UpdateDeleteConflict, DeleteCreateInParent}) /\ [][NextRun]_vars

(* The document `doc` is present while the directory `dir` is absent or    *)
(* does not list `name`.                                                   *)
Unlisted(s, doc, dir, name) ==
    /\ Present(s, doc)
    /\ ~(Present(s, dir) /\ s.data[dir][2][1].tag = "Dir" /\ name \in s.data[dir][2][1].entries)


RunOf(n, configs) == scenario = n /\ store.config \in configs

XUnlisted(s) == Unlisted(s, PathX, PathDir, <<"x">>)

(* C34: the statement that with skip_links = true, every other option      *)
(* default, link-reachability holds after every act of every ordering of   *)
(* the update/delete conflict scenario.                                    *)
SkipLinksKeepsReachability ==
    RunOf(UpdateDeleteConflict, {SkipLinks}) => LinkReachable(store)

(* C34, as the code has it: in the update/delete conflict scenario with    *)
(* every other option default, link-reachability fails only with           *)
(* skip_links = true: A skips its Link of x, which its cached listing of   *)
(* /path/ holds, or of path/ in /, and its Put re-creates /path/x on the  *)
(* tombstone it read, while an Unlink of B takes the skipped entry out;    *)
(* the state is reached by A's Put after B's Unlink or by B's Unlink after *)
(* A's Put.                                                                *)
SkipLinksBreaksReachability ==
    (RunOf(UpdateDeleteConflict, {ConfigDefault, SkipLinks}) /\ ~LinkReachable(store)) =>
        /\ store.config.skip_links
        /\ Present(store, PathX)
        /\ result = "Fail"
        /\ ~actors["A"].crashed
        /\ \/ /\ last.op = "Put"
              /\ last.value = Some("A")
              /\ Tombstoned(last.before, PathX)
           \/ /\ last.op = "Unlink"
              /\ last.value = Some("B")
              /\ Present(last.before, PathX)

SkipLinksBreaksReachabilityWitness ==
    /\ RunOf(UpdateDeleteConflict, {SkipLinks})
    /\ XUnlisted(store)
    /\ last.op = "Put"
    /\ result = "Fail"

(* C35: in the update/delete conflict scenario, with every other option    *)
(* default, a state in which /path/x is present while /path/ does not list *)
(* it is reached with Update::GetBeforePut and not with                    *)
(* Update::ReadsBeforeLinks.                                               *)
ReadsBeforeLinksIsNecessary ==
    (RunOf(UpdateDeleteConflict, {ConfigDefault, GetBeforePut}) /\ XUnlisted(store)) =>
        store.config.update = "GetBeforePut"

ReadsBeforeLinksIsNecessaryWitness ==
    /\ RunOf(UpdateDeleteConflict, {GetBeforePut})
    /\ XUnlisted(store)
    /\ result = "Fail"

(* C36: in the 'delete, create in parent' scenario, with every other       *)
(* option default, a state in which /path/y is present while / does not    *)
(* list path/ or /path/ does not list y is reached with                    *)
(* Remove::UnlinkParallel and not with Remove::UnlinkReverseSequential.    *)
YUnlisted(s) ==
    \/ Unlisted(s, PathY, Root, <<"p", "a", "t", "h", "/">>)
    \/ Unlisted(s, PathY, PathDir, <<"y">>)

ReverseSequentialIsNecessary ==
    (RunOf(DeleteCreateInParent, {ConfigDefault, UnlinkParallel}) /\ YUnlisted(store)) =>
        store.config.remove = "UnlinkParallel"

ReverseSequentialIsNecessaryWitness ==
    /\ RunOf(DeleteCreateInParent, {UnlinkParallel})
    /\ YUnlisted(store)
    /\ result = "Fail"

(* C37: in the update/delete conflict scenario, with every other option    *)
(* default, a state in which /path/x is present while /path/ does not list *)
(* it is reached with Cas::LaxDelete and not with Cas::Strict: B removed   *)
(* /path/x and unlinked it, A's Put re-created it over the tombstone of    *)
(* B's Rm, and the state is reached either by B's Unlink after A's Put or  *)
(* by A's Put after B's Unlink.                                            *)
StrictCasIsNecessary ==
    (RunOf(UpdateDeleteConflict, {ConfigDefault, LaxDelete}) /\ XUnlisted(store)) =>
        /\ store.config.store = "LaxDelete"
        /\ ~actors["A"].crashed
        /\ PathX \in DOMAIN actors["B"].cache
        /\ actors["B"].cache[PathX] = None
        /\ ValueOf(store, PathX) = Some([tag |-> "Doc", value |-> <<"x", 2>>])
        /\ get_rev(actors["A"].cache, PathX) = Some(RevOf(store, PathX))
        /\ \/ /\ last.op = "Unlink"
              /\ last.value = Some("B")
              /\ Present(last.before, PathX)
              /\ RevOf(store, PathX) = RevOf(last.before, PathX)
           \/ /\ last.op = "Put"
              /\ last.value = Some("A")
              /\ Tombstoned(last.before, PathX)

StrictCasIsNecessaryWitness ==
    /\ RunOf(UpdateDeleteConflict, {LaxDelete})
    /\ XUnlisted(store)
    /\ last.op = "Unlink"
    /\ last.value = Some("B")
    /\ Present(last.before, PathX)
    /\ ~XUnlisted(last.before)
    /\ result = "Fail"

----------------------------------------------------------------------------
(* runner.rs: check_execution's threads. WORKER_COUNT Workers take the     *)
(* orderings from the shared queue and a Supervisor collects their         *)
(* results. An ordering's execution is one step of its Worker: it runs on  *)
(* state of its own, and its outcome, the check failing after some act or  *)
(* not, depends on the ordering alone, so the orderings that fail are an   *)
(* input. Here                                                             *)
(*   scenario  is [count, failing]: the number of orderings and the        *)
(*             indices (from 0) of those that fail;                        *)
(*   steps     is the position of the queue's iterator;                    *)
(*   result    is each Worker's position in run, the ordering it holds and *)
(*             the count of its `result`;                                  *)
(*   nodes     is the result channel;                                      *)
(*   caches    is each abort channel, as the number of messages in it;     *)
(*   checker   is the Supervisor: its position, `result` and `finished`;   *)
(*   hist      records who took and who executed each ordering, and the    *)
(*             aborts sent.                                                *)
MaxOrderings == 2

WORKER_COUNT == 4

WorkerIds == 1..WORKER_COUNT

TestResult_Pass(count) == [tag |-> "Pass", count |-> count]
TestResult_Fail(count) == [tag |-> "Fail", count |-> count]
is_pass(r) == r.tag = "Pass"

(* self.plans.lock().unwrap().next() on orderings().enumerate() *)
Worker_next_plan(pos, count) ==
    IF pos < count THEN [ret |-> Some(pos), pos |-> pos + 1] ELSE [ret |-> None, pos |-> pos]

(* Mutant of larger_count: the latest Pass replaces the result. *)
larger_count_latest(res, worker_result) == worker_result

(* if worker_result.count() > result.count() { result = worker_result } *)
larger_count(res, worker_result) ==
    IF worker_result.count > res.count THEN worker_result ELSE res

(* Mutant of all_finished: one Pass more than there are Workers is awaited. *)
all_finished_one_more(finished, aborts) == finished = aborts + 1

(* finished == self.aborts.len() *)
all_finished(finished, aborts) == finished = aborts

InitSupervisor ==
    /\ \E count \in 1..MaxOrderings : \E failing \in SUBSET (0..(count - 1)) :
           scenario = [count |-> count, failing |-> failing]
    /\ steps = 0
    /\ result = [w \in WorkerIds |-> [pc |-> "next", n |-> None, count |-> 0]]
    /\ nodes = <<>>
    /\ caches = [w \in WorkerIds |-> 0]
    /\ checker = [pc |-> "recv", result |-> TestResult_Pass(0), finished |-> 0]
    /\ hist = [taken |-> [n \in 0..(MaxOrderings - 1) |-> {}],
               ran |-> [n \in 0..(MaxOrderings - 1) |-> {}],
               sent |-> [w \in WorkerIds |-> 0]]
    /\ last = [op |-> "new"]
    /\ store = Store_new(ConfigDefault)
    /\ actors = EmptyMap
    /\ graph = <<>>
    /\ nsucc = 0

(* while let Some((n, plan)) = self.next_plan(): the queue gives the next  *)
(* ordering, or none and the loop ends.                                    *)
WorkerTake(w) ==
    /\ result[w].pc = "next"
    /\ \E r \in {Worker_next_plan(steps, scenario.count)} :
           /\ steps' = r.pos
           /\ IF is_some(r.ret)
              THEN /\ result' = [result EXCEPT ![w].pc = "abort", ![w].n = r.ret]
                   /\ hist' = [hist EXCEPT !.taken[unwrap(r.ret)] = @ \cup {w}]
              ELSE /\ result' = [result EXCEPT ![w].pc = "send"]
                   /\ hist' = hist
    /\ UNCHANGED <<last, scenario, nodes, caches, checker, store, actors, graph, nsucc>>

(* if self.abort_ch.try_recv().is_ok() { return; } *)
WorkerCheckAbort(w) ==
    /\ result[w].pc = "abort"
    /\ IF caches[w] > 0
       THEN /\ caches' = [caches EXCEPT ![w] = @ - 1]
            /\ result' = [result EXCEPT ![w].pc = "aborted"]
       ELSE /\ caches' = caches
            /\ result' = [result EXCEPT ![w].pc = "run"]
    /\ UNCHANGED <<last, scenario, steps, nodes, checker, hist, store, actors, graph, nsucc>>

(* The loop over the plan: when the check fails after an act the Worker    *)
(* sends Fail { count: n + 1 } and returns; otherwise its result becomes   *)
(* Pass { count: n + 1 }.                                                  *)
WorkerRunPlan(w) ==
    /\ result[w].pc = "run"
    /\ \E n \in {unwrap(result[w].n)} :
           /\ hist' = [hist EXCEPT !.ran[n] = @ \cup {w}]
           /\ IF n \in scenario.failing
              THEN /\ nodes' = Append(nodes, TestResult_Fail(n + 1))
                   /\ result' = [result EXCEPT ![w].pc = "failed"]
              ELSE /\ nodes' = nodes
                   /\ result' = [result EXCEPT ![w].pc = "next", ![w].count = n + 1]
    /\ UNCHANGED <<last, scenario, steps, caches, checker, store, actors, graph, nsucc>>

(* self.send_result(result) after the loop *)
WorkerSendResult(w) ==
    /\ result[w].pc = "send"
    /\ nodes' = Append(nodes, TestResult_Pass(result[w].count))
    /\ result' = [result EXCEPT ![w].pc = "passed"]
    /\ UNCHANGED <<last, scenario, steps, caches, checker, hist, store, actors, graph, nsucc>>

(* One iteration of collect_result's loop over the result channel. *)
SupervisorCollect ==
    /\ checker.pc = "recv"
    /\ nodes # <<>>
    /\ nodes' = Tail(nodes)
    /\ \E worker_result \in {Head(nodes)} :
           IF is_pass(worker_result)
           THEN checker' = [pc |-> IF all_finished(checker.finished + 1, WORKER_COUNT)
                                   THEN "returned" ELSE "recv",
                            result |-> larger_count(checker.result, worker_result),
                            finished |-> checker.finished + 1]
           ELSE checker' = [checker EXCEPT !.pc = "abort", !.result = worker_result]
    /\ UNCHANGED <<last, scenario, steps, result, caches, hist, store, actors, graph, nsucc>>

(* One iteration of abort's loop over the abort channels; after the last   *)
(* collect_result breaks out of its loop and returns.                      *)
SupervisorAbort ==
    /\ checker.pc = "abort"
    /\ \E w \in {CHOOSE v \in WorkerIds : hist.sent[v] = 0 /\ \A u \in 1..(v - 1) : hist.sent[u] > 0} :
           /\ caches' = [caches EXCEPT ![w] = @ + 1]
           /\ hist' = [hist EXCEPT !.sent[w] = @ + 1]
           /\ checker' = [checker EXCEPT !.pc = IF w = WORKER_COUNT THEN "returned" ELSE "abort"]
    /\ UNCHANGED <<last, scenario, steps, result, nodes, store, actors, graph, nsucc>>

WorkerRun(w) ==
    \/ WorkerTake(w)
    \/ WorkerCheckAbort(w)
    \/ WorkerRunPlan(w)
    \/ WorkerSendResult(w)

SupervisorRun == SupervisorCollect \/ SupervisorAbort

NextSupervisor == (\E w \in WorkerIds : WorkerRun(w)) \/ SupervisorRun

SpecSupervisor == InitSupervisor /\ [][NextSupervisor]_vars

(* The threads of thread::scope are scheduled: none that can take a step   *)
(* waits for ever.                                                         *)
SpecSupervisorFair ==
    /\ SpecSupervisor
    /\ \A w \in WorkerIds : WF_vars(WorkerRun(w))
    /\ WF_vars(SupervisorRun)


Orderings == 0..(scenario.count - 1)

SupervisorReturned == checker.pc = "returned"

WorkerFinished(w) == result[w].pc \in {"passed", "failed", "aborted"}

(* C38: every ordering is taken by at most one Worker and executed only by *)
(* the Worker that took it; when no ordering fails, at the Supervisor's    *)
(* return every ordering has been executed exactly once and the result is  *)
(* Pass with count the number of orderings.                                *)
EachOrderingOnce ==
    /\ \A n \in Orderings :
           /\ Cardinality(hist.taken[n]) <= 1
           /\ hist.ran[n] \subseteq hist.taken[n]
    /\ (scenario.failing = {} /\ SupervisorReturned) =>
           /\ \A n \in Orderings : Cardinality(hist.ran[n]) = 1
           /\ \A w \in WorkerIds : result[w].pc = "passed"
           /\ checker.result = TestResult_Pass(scenario.count)

(* The Supervisor has returned Pass, two Workers having executed one       *)
(* ordering each.                                                          *)
EachOrderingOnceWitness ==
    /\ scenario.failing = {}
    /\ scenario.count = MaxOrderings
    /\ SupervisorReturned
    /\ checker.result = TestResult_Pass(MaxOrderings)
    /\ \E v, w \in WorkerIds : v # w /\ hist.ran[0] = {v} /\ hist.ran[1] = {w}

SomeOrderingFailed == \E n \in Orderings : n \in scenario.failing /\ hist.ran[n] # {}

AllFinished == SupervisorReturned /\ \A w \in WorkerIds : WorkerFinished(w)

(* C39: the Supervisor and every Worker eventually finish; the Supervisor  *)
(* returns Fail exactly when some executed ordering failed its check, and  *)
(* then it has sent one abort to every Worker; a Worker that saw the abort *)
(* did not execute the ordering it had taken and takes no further step.    *)
RunTerminates ==
    /\ <>[]AllFinished
    /\ [](SupervisorReturned => (~is_pass(checker.result) <=> SomeOrderingFailed))
    /\ [](SupervisorReturned /\ ~is_pass(checker.result) =>
              /\ checker.result.count - 1 \in scenario.failing
              /\ \A w \in WorkerIds : hist.sent[w] = 1)
    /\ [](is_pass(checker.result) => \A w \in WorkerIds : hist.sent[w] = 0)
    /\ [](\A w \in WorkerIds :
              result[w].pc = "aborted" => w \notin hist.ran[unwrap(result[w].n)])
    /\ [][\A w \in WorkerIds :
              result[w].pc = "aborted" =>
                  /\ result'[w] = result[w]
                  /\ \A n \in Orderings : (w \in hist'.ran[n]) <=> (w \in hist.ran[n])]_vars

(* Every thread has finished, the Supervisor with Fail; a Worker saw the   *)
(* abort and the ordering it had taken was never executed.                 *)
RunTerminatesWitness ==
    /\ AllFinished
    /\ ~is_pass(checker.result)
    /\ \E w \in WorkerIds :
           /\ result[w].pc = "aborted"
           /\ hist.ran[unwrap(result[w].n)] = {}

----------------------------------------------------------------------------
(* Graph::add called with any ids as deps, those of nodes not yet added    *)
(* included; hist.earlier records whether every call so far passed only    *)
(* ids that earlier calls returned.                                        *)
MaxAddNodes == 3

InitAdds ==
    /\ graph = Graph_new
    /\ hist = [earlier |-> TRUE]
    /\ last = [op |-> "new"]
    /\ store = Store_new(ConfigDefault)
    /\ checker = Checker_new
    /\ nsucc = 0
    /\ actors = EmptyMap
    /\ nodes = <<>>
    /\ result = "none"
    /\ scenario = 0
    /\ caches = EmptyMap
    /\ steps = 0

GraphAddAny(deps) ==
    /\ Len(graph) < MaxAddNodes
    /\ \E r \in {Graph_add(graph, IdSeq(deps), Len(graph))} :
           /\ graph' = r.graph
           /\ last' = [op |-> "add", id |-> r.id]
    /\ hist' = [earlier |-> hist.earlier /\ deps \subseteq 1..Len(graph)]
    /\ UNCHANGED <<store, checker, nsucc, actors, nodes, result, scenario, caches, steps>>

NextAdds ==
    \/ \E deps \in SUBSET (1..MaxAddNodes) : GraphAddAny(deps)
    \/ GraphOrderings

SpecAdds == InitAdds /\ [][NextAdds]_vars

IdsInInsertionOrder ==
    /\ \A i \in 1..Len(graph) : graph[i].id = i
    /\ last.op = "add" => last.id = Len(graph)

DepsAreEarlier ==
    \A i \in 1..Len(graph) : \A j \in 1..Len(graph[i].deps) : graph[i].deps[j] \in 1..(i - 1)

SomeOrdering ==
    last.op = "orderings" =>
        /\ Len(last.ret) >= 1
        /\ \A k \in 1..Len(last.ret) : Len(last.ret[k]) = Len(graph)

(* C40: the statement that after any sequence of Graph.add calls the ids   *)
(* are 1, 2, 3, ... in insertion order, every dep of every node is the id  *)
(* of a node added earlier and orderings() yields at least one ordering.   *)
AnyAddsBuildDag == IdsInInsertionOrder /\ DepsAreEarlier /\ SomeOrdering

(* C40, as the code has it: after any sequence of Graph.add calls the ids  *)
(* are 1, 2, 3, ... in insertion order; when every call passed as deps     *)
(* only ids that earlier calls returned, every dep of every node is the id *)
(* of a node added earlier and orderings() yields at least one ordering,   *)
(* each of all the nodes.                                                  *)
AddsOfReturnedIdsBuildDag ==
    /\ IdsInInsertionOrder
    /\ hist.earlier => (DepsAreEarlier /\ SomeOrdering)

AddsOfReturnedIdsBuildDagWitness ==
    /\ hist.earlier
    /\ Len(graph) = MaxAddNodes
    /\ graph[MaxAddNodes].deps # <<>>
    /\ last.op = "orderings"
    /\ Len(last.ret) >= 1

----------------------------------------------------------------------------
(* runner.rs: check_execution and Worker::run on the scenarios of main.rs. *)
(* The Workers run concurrently; each owns a clone of the baseline Store   *)
(* and, inside a plan, its own state, Actors and Checker; they share the   *)
(* plan queue.  A plan is an ordering of the scenario's graph, as node ids.*)
(*   scenario  is the index of the scenario in Scenarios;                  *)
(*   graph     is the graph of its planner;                                *)
(*   nodes     is the plan queue, the first MaxPlans orderings;            *)
(*   steps     is the position of the queue's iterator;                    *)
(*   result    is each Worker's position in run, the plan (n, plan) it     *)
(*             holds, the acts of it dispatched, and its `result`;         *)
(*   store, actors, checker  are each Worker's state, Actors and Checker;  *)
(*   caches    is each abort channel, as the number of messages in it;     *)
(*   hist      is each Worker's own Store (baseline), the number of plans  *)
(*             it set up (ran), and the result channel (results).          *)
(* The Supervisor, which alone sends on the abort channels, is specified   *)
(* in SpecSupervisor.                                                      *)

MaxPlans == 2

(* The first k orderings permute yields for `nodes`:                       *)
(* orderings().enumerate() cut after k plans.                              *)
RECURSIVE take_orderings(_, _)
RECURSIVE take_orderings_from(_, _, _, _)
take_orderings_from(ns, avail, i, k) ==
    IF k = 0 \/ i > Len(avail) THEN <<>>
    ELSE Let(take_orderings(remaining(ns, avail[i]), k),
             LAMBDA others :
                 [j \in 1..Len(others) |-> <<avail[i]>> \o others[j]]
                 \o take_orderings_from(ns, avail, i + 1, k - Len(others)))

take_orderings(ns, k) ==
    IF k = 0 THEN <<>>
    ELSE IF ns = <<>> THEN << <<>> >>
    ELSE take_orderings_from(ns, available(ns), 1, k)

(* Mutant of Worker_store: the plan runs on the Worker's own Store. *)
Worker_store_shared(own, state) == state

(* Worker.store after an act was dispatched on `state`: state is a clone of *)
(* it, so it is left as it was.                                             *)
Worker_store(own, state) == own

InitWorkers ==
    \E n \in {UpdateDeleteConflict, DeleteCreateInParent} :
        \E rs \in {RunnerScenario_new(ConfigDefault, Scenarios[n])} :
        \E baseline \in {create_store(rs)} :
            /\ scenario = n
            /\ graph = rs.planner.graph
            /\ nodes = take_orderings(Graph_nodes(rs.planner.graph), MaxPlans)
            /\ steps = 0
            /\ result = [w \in WorkerIds |->
                            [pc |-> "next", n |-> 0, plan |-> <<>>, i |-> 0,
                             result |-> TestResult_Pass(0)]]
            /\ store = [w \in WorkerIds |-> baseline]
            /\ actors = [w \in WorkerIds |-> EmptyMap]
            /\ checker = [w \in WorkerIds |-> Checker_new]
            /\ caches = [w \in WorkerIds |-> 0]
            /\ hist = [baseline |-> [w \in WorkerIds |-> baseline],
                       ran |-> [w \in WorkerIds |-> 0],
                       results |-> <<>>]
            /\ last = [op |-> "new"]
            /\ nsucc = 0

(* while let Some((n, plan)) = self.next_plan(): the queue gives the next  *)
(* plan, or none and the loop ends.                                        *)
WorkerNextPlan(w) ==
    /\ result[w].pc = "next"
    /\ \E r \in {Worker_next_plan(steps, Len(nodes))} :
           /\ steps' = r.pos
           /\ result' = IF is_some(r.ret)
                        THEN [result EXCEPT ![w].pc = "abort",
                                            ![w].n = unwrap(r.ret),
                                            ![w].plan = nodes[unwrap(r.ret) + 1],
                                            ![w].i = 0]
                        ELSE [result EXCEPT ![w].pc = "send"]
    /\ UNCHANGED <<scenario, graph, nodes, store, actors, checker, caches, hist,
                   last, nsucc>>

(* if self.abort_ch.try_recv().is_ok() { return; } *)
WorkerTryRecv(w) ==
    /\ result[w].pc = "abort"
    /\ IF caches[w] > 0
       THEN /\ caches' = [caches EXCEPT ![w] = @ - 1]
            /\ result' = [result EXCEPT ![w].pc = "aborted"]
       ELSE /\ caches' = caches
            /\ result' = [result EXCEPT ![w].pc = "setup"]
    /\ UNCHANGED <<scenario, graph, nodes, steps, store, actors, checker, hist,
                   last, nsucc>>

(* The state, a clone of the Worker's Store, the Actors and the Checker of *)
(* the plan; a plan without acts is passed at once.                        *)
WorkerSetUp(w) ==
    /\ result[w].pc = "setup"
    /\ store' = [store EXCEPT ![w] = hist.baseline[w]]
    /\ actors' = [actors EXCEPT ![w] =
                     create_actors(ConfigDefault,
                         Planner_clients(RunnerScenario_new(ConfigDefault,
                                             Scenarios[scenario]).planner))]
    /\ checker' = [checker EXCEPT ![w] = Checker_new]
    /\ hist' = [hist EXCEPT !.ran[w] = @ + 1]
    /\ result' = IF result[w].plan = <<>>
                 THEN [result EXCEPT ![w].pc = "next",
                                     ![w].result = TestResult_Pass(result[w].n + 1)]
                 ELSE [result EXCEPT ![w].pc = "act"]
    /\ UNCHANGED <<scenario, graph, nodes, steps, caches, last, nsucc>>

(* One iteration of the loop over the plan: the act goes to the Actor of   *)
(* its client and the Checker runs; an error is sent as a Fail and ends    *)
(* the Worker, and the plan is passed after its last act.                  *)
WorkerAct(w) ==
    /\ result[w].pc = "act"
    /\ \E act \in {graph[result[w].plan[result[w].i + 1]].value} :
       \E r \in {dispatch(store[w], actors[w][act.client_id], act)} :
       \E c \in {Checker_check(checker[w], r.store)} :
           /\ store' = [store EXCEPT ![w] = r.store]
           /\ actors' = [actors EXCEPT ![w][act.client_id] = r.actor]
           /\ checker' = [checker EXCEPT ![w] = c.checker]
           /\ hist' = [hist EXCEPT
                          !.baseline[w] = Worker_store(hist.baseline[w], r.store),
                          !.results = IF c.ret.ok THEN @
                                      ELSE Append(@, TestResult_Fail(result[w].n + 1))]
           /\ result' = IF ~c.ret.ok
                        THEN [result EXCEPT ![w].pc = "failed", ![w].i = @ + 1]
                        ELSE IF result[w].i + 1 = Len(result[w].plan)
                        THEN [result EXCEPT ![w].pc = "next", ![w].i = @ + 1,
                                            ![w].result = TestResult_Pass(result[w].n + 1)]
                        ELSE [result EXCEPT ![w].i = @ + 1]
    /\ UNCHANGED <<scenario, graph, nodes, steps, caches, last, nsucc>>

(* self.send_result(result) after the loop. *)
WorkerSend(w) ==
    /\ result[w].pc = "send"
    /\ hist' = [hist EXCEPT !.results = Append(@, result[w].result)]
    /\ result' = [result EXCEPT ![w].pc = "passed"]
    /\ UNCHANGED <<scenario, graph, nodes, steps, store, actors, checker, caches,
                   last, nsucc>>

NextWorkers ==
    \E w \in WorkerIds :
        \/ WorkerNextPlan(w)
        \/ WorkerTryRecv(w)
        \/ WorkerSetUp(w)
        \/ WorkerAct(w)
        \/ WorkerSend(w)

SpecWorkers == InitWorkers /\ [][NextWorkers]_vars

(* The baseline Store of the scenario under execution. *)
Baseline == create_store(RunnerScenario_new(ConfigDefault, Scenarios[scenario]))

(* The acts of `order` from the i-th on, each dispatched to the Actor of    *)
(* its client.                                                              *)
RECURSIVE Replay(_, _, _, _, _)
Replay(s, as, g, order, i) ==
    IF i > Len(order) THEN [store |-> s, actors |-> as]
    ELSE LET act == g[order[i]].value
             r == dispatch(s, as[act.client_id], act)
         IN  Replay(r.store, [as EXCEPT ![act.client_id] = r.actor], g, order, i + 1)

(* The Workers that have set up a plan and are in it or past it. *)
InPlan(w) == hist.ran[w] > 0 /\ result[w].pc \in {"act", "next", "send", "passed", "failed"}

(* C27: every ordering is executed on a fresh clone of the baseline Store   *)
(* with fresh Actors, one per client id, each act going to the Actor of its *)
(* client; the baseline is never modified, so the state an ordering leads   *)
(* to depends on the ordering alone, not on the plans run before it, on the *)
(* Worker, or on what the other Workers do meanwhile.                       *)
FreshStatePerOrdering ==
    LET clients == {graph[n].value.client_id : n \in 1..Len(graph)}
        fresh == [id \in clients |->
                     [cache |-> Cache_new, config |-> ConfigDefault,
                      crashed |-> FALSE, unlinks |-> {}]]
        baseline == Baseline
    IN  \A w \in WorkerIds :
            /\ hist.baseline[w] = baseline
            /\ InPlan(w) =>
                   LET done == SubSeq(result[w].plan, 1, result[w].i)
                       state == Replay(baseline, fresh, graph, done, 1)
                   IN  /\ result[w].plan = nodes[result[w].n + 1]
                       /\ store[w] = state.store
                       /\ actors[w] = state.actors
                       /\ result[w].i = 0 => checker[w] = Checker_new

(* A Worker past its second plan, which changed the state it ran on as the *)
(* first did.                                                              *)
FreshStatePerOrderingWitness ==
    \E w \in WorkerIds :
        /\ hist.ran[w] = 2
        /\ result[w].pc = "next"
        /\ result[w].i = Len(result[w].plan)
        /\ store[w] # Baseline

====
